---- MODULE Spec2Model ----
(***************************************************************************)
(* A model of the conciser pipeline orchestrator (src/src/pipeline.py),    *)
(* its artifact store (the per-video folders under temp_dir) and the       *)
(* condensation retry loop (src/src/modules/condenser.py).                 *)
(*                                                                         *)
(* Strings that the code builds and takes apart (folder names, video ids,  *)
(* titles) are sequences of tokens: a token is a maximal run of characters *)
(* other than '_', and "_" is a token of its own.  Voice ids are sequences *)
(* of characters.                                                          *)
(***************************************************************************)
EXTENDS Integers, Sequences, FiniteSets, TLC

VARIABLES
    fs,        \* temp_dir: video key -> the video folder's files
    voices,    \* cloned voices alive at the TTS vendor
    nclones,   \* number of voices cloned so far (names the next voice id)
    nruns,     \* number of run() calls started
    run,       \* the arguments of the current run() call
    pc,        \* the position of the main thread inside run()
    ctx,       \* run()'s local variables
    calls,     \* stage services invoked by the current run
    resumed,   \* stages the current run resumed from an artifact
    seen,      \* the state in which each resume lookup found its artifact
    out,       \* output path of the current run, once written
    prev,      \* the previous run: same arguments?, how it ended, its output path
    snap,      \* files written by the earlier stages of the current run
    bg,        \* the background frame-extraction worker
    events,    \* the current run's progress_callback calls <<stage, kind>> and
               \* artifact writes <<stage, "persisted">>, in the order they happen
    rt,        \* ContentCondenser.condense: the retry loop
    fn,        \* a call of a pure function: its arguments and its result
    srv        \* server/app.py: currently_processing, jobs and the threads

vars == <<fs, voices, nclones, nruns, run, pc, ctx, calls, resumed,
          seen, out, prev, snap, bg, events, rt, fn, srv>>

pipeVars == <<fs, voices, nclones, nruns, run, pc, ctx, calls,
              resumed, seen, out, prev, snap, bg, events>>

----------------------------------------------------------------------------
(* Bounds *)

MaxRuns == 2

MaxRetriesBound == 5

MaxDelay == 2

----------------------------------------------------------------------------
(* The sources: URLs and what the download tool reports for them *)

Us == "_"

None == <<>>

NoFolder == "none"

Urls == {"U1", "U2", "U3"}

\* U1, U2: YouTube URLs (U2's 11-character id holds a '_'); U3: a URL that
\* matches neither pattern; yt-dlp reports an id of its own for it.
UrlInfo(u) ==
    CASE u = "U1" -> [yt |-> TRUE,  id |-> <<"AAA">>,          title |-> <<"t1">>]
      [] u = "U2" -> [yt |-> TRUE,  id |-> <<"bb", Us, "cc">>, title |-> <<"t2">>]
      [] OTHER    -> [yt |-> FALSE, id |-> <<"n9">>,           title |-> <<"t3">>]

_extract_video_id(u) == IF UrlInfo(u).yt THEN UrlInfo(u).id ELSE None

\* downloader.download: {video_id}_{normalized_title}
FolderName(u) == UrlInfo(u).id \o <<Us>> \o UrlInfo(u).title

startswith(s, p) == Len(p) <= Len(s) /\ SubSeq(s, 1, Len(p)) = p

FirstUs(s) ==
    IF \E i \in 1..Len(s) : s[i] = Us
    THEN CHOOSE i \in 1..Len(s) : s[i] = Us /\ \A j \in 1..(i - 1) : s[j] # Us
    ELSE 0

\* folder_name.split('_', 1) and the two branches on len(parts)
SplitFolderName(s) ==
    IF FirstUs(s) > 0
    THEN [video_id |-> SubSeq(s, 1, FirstUs(s) - 1),
          normalized_title |-> SubSeq(s, FirstUs(s) + 1, Len(s))]
    ELSE [video_id |-> <<"unknown">>, normalized_title |-> s]

----------------------------------------------------------------------------
(* Voices *)

Lower(c) == CASE c = "V" -> "v" [] c = "C" -> "c" [] OTHER -> c

SnakeChars == {"v", "c", "e", "1", "2", "3", "4", "_"}

RECURSIVE Filter(_, _)
Filter(s, keep) ==
    IF s = <<>> THEN <<>>
    ELSE (IF Head(s) \in keep THEN <<Head(s)>> ELSE <<>>) \o Filter(Tail(s), keep)

\* re.sub(r'[^a-z0-9_]', '', voice_id.lower().replace('-', '_'))
VoiceSnake(v) ==
    Filter([i \in 1..Len(v) |-> IF Lower(v[i]) = "-" THEN "_" ELSE Lower(v[i])],
           SnakeChars)

PremadeVoices == {<<"v", "1">>, <<"V", "1">>}

EdgeVoice == <<"e", "-", "1">>

Digit(n) == CASE n = 1 -> "1" [] n = 2 -> "2" [] n = 3 -> "3" [] OTHER -> "4"

\* the id the vendor gives the n-th cloned voice
ClonedVoice(n) == <<"c", Digit(n)>>

----------------------------------------------------------------------------
(* The artifact store *)

NoSpeech == [st |-> "absent", voice |-> None, aggr |-> 0, dur |-> 0]

\* Seconds of narration the TTS returns for a script condensed at level a:
\* a long and a very short narration.
SpeechSeconds(a) == IF a <= 5 THEN 20 ELSE 3

EmptyFolder ==
    [video |-> FALSE, audio |-> FALSE, tr |-> "absent",
     cond |-> [st |-> "absent", aggr |-> 0],
     speech |-> {},
     scenes |-> 0, frames |-> {}, fallback |-> 0, gen |-> FALSE]

\* generated_speech_{tts_provider}_{voice_normalized}_normalized.mp3
SpeechKey(provider, voice) == <<provider, VoiceSnake(voice)>>

SpeechAt(folder, key) ==
    IF \E e \in folder.speech : e.key = key
    THEN (CHOOSE e \in folder.speech : e.key = key).file
    ELSE NoSpeech

PutSpeech(files, key, file) ==
    {e \in files : e.key # key} \cup {[key |-> key, file |-> file]}

\* The folders _find_existing_video may return: iterdir() yields the folders
\* in no defined order and the first one holding a source video wins.
_find_existing_video(f, video_id) ==
    {v \in Urls : /\ f[v].video
                  /\ (video_id = None \/ startswith(FolderName(v), video_id \o <<Us>>))}

\* _find_existing_metadata: the id and title are read back from the folder name
_find_existing_metadata(v) == SplitFolderName(FolderName(v))

----------------------------------------------------------------------------
(* run(): arguments and local state *)

\* avatar mode differs from static only in the renderer it calls (D-ID
\* instead of ffmpeg); the runs explored use static.
Modes == {"static", "audio_only"}

Aggr == {3, 8}

\* <<tts_provider, skip_voice_clone, voice_id>>
VoiceConfigs ==
    {<<"elevenlabs", FALSE, None>>, <<"edge", TRUE, EdgeVoice>>}
    \cup {<<"elevenlabs", TRUE, v>> : v \in PremadeVoices}

NoRun ==
    [url |-> "U1", resume |-> FALSE, aggr |-> 0, provider |-> "none",
     skip |-> FALSE, voice |-> None, mode |-> "none",
     frames_given |-> FALSE, max_frames |-> 0]

\* frame_timings before the synchronizer has run
NoTimings == [den |-> 1, proportional |-> FALSE, timings |-> <<>>]

NoCtx ==
    [folder |-> NoFolder, video_id |-> None, normalized_title |-> None,
     tr |-> "none", cond |-> [st |-> "absent", aggr |-> 0],
     used_voice_id |-> None, cleanup_voice |-> FALSE,
     speech |-> NoSpeech, error |-> "none", timed_out |-> FALSE,
     inline |-> FALSE, nframes |-> 0, timings |-> NoTimings,
     output_audio |-> NoSpeech, deleted |-> None, callback |-> "returns"]

NoSeen == [tr |-> "none", cond |-> "none", speech |-> "none"]

NoPrev == [same |-> FALSE, end |-> "none", out |-> <<>>]

BgOff == [pc |-> "off", folder |-> NoFolder, todo |-> <<>>, left |-> 0]

Ended == {"idle", "done", "failed", "killed"}

\* The except clause of run() re-raises: no later stage runs.
AfterError(stage) == "failed"

\* A run() that emptied the video folder on a failure
FsRollback(f, folder) == [f EXCEPT ![folder] = EmptyFolder]

\* ... and it leaves the files of the video folder alone.
FsOnError(f, folder) == f

\* {video_id}_{normalized_title}_{tts_provider}_{voice_snake}.{ext}
OutputPath(c, provider, ext) ==
    c.video_id \o <<Us>> \o c.normalized_title \o <<Us, provider, Us>>
        \o VoiceSnake(c.used_voice_id) \o <<".", ext>>

Folder == fs[ctx.folder]

PutFolder(field, value) == [fs EXCEPT ![ctx.folder][field] = value]

----------------------------------------------------------------------------
(* Init and the stages of run() *)

InitPipeline ==
    /\ fs = [v \in Urls |-> EmptyFolder]
    /\ voices = {}
    /\ nclones = 0
    /\ nruns = 0
    /\ run = NoRun
    /\ pc = "idle"
    /\ ctx = NoCtx
    /\ calls = {}
    /\ resumed = {}
    /\ seen = NoSeen
    /\ out = <<>>
    /\ prev = NoPrev
    /\ snap = <<>>
    /\ bg = BgOff
    /\ events = <<>>


StartRunWith(args) ==
    /\ pc \in Ended
    /\ bg.pc \in {"off", "done"}
    /\ nruns < MaxRuns
    /\ nruns' = nruns + 1
    /\ run' = args
    /\ prev' = [same |-> (args = run), end |-> pc, out |-> out]
    /\ pc' = "fetch"
    /\ ctx' = NoCtx
    /\ calls' = {}
    /\ resumed' = {}
    /\ seen' = NoSeen
    /\ out' = <<>>
    /\ snap' = <<>>
    /\ bg' = BgOff
    /\ events' = <<>>
    /\ UNCHANGED <<fs, voices, nclones, rt, fn, srv>>

StartRun ==
    \E u \in Urls, r \in BOOLEAN, a \in Aggr, vc \in VoiceConfigs, m \in Modes :
        StartRunWith([url |-> u, resume |-> r, aggr |-> a, provider |-> vc[1],
                      skip |-> vc[2], voice |-> vc[3], mode |-> m,
                      frames_given |-> FALSE, max_frames |-> 0])

\* Stage 1 (pipeline.py 95-151): resume lookup or download, then the start of
\* the background frame extraction in slideshow mode.
BgStart(folder, f) ==
    IF run.mode = "slideshow" /\ f[folder].frames = {} /\ f[folder].fallback = 0
    THEN [pc |-> "detect", folder |-> folder, todo |-> <<>>, left |-> 0]
    ELSE BgOff

\* pipeline.py 142: the event that announces the background extraction
\* The mark a stage leaves in events when it has written its artifact
Persisted(stage, before, after) ==
    IF after # before THEN <<<<stage, "persisted">>>> ELSE <<>>

FrameExtractEvent(b) ==
    IF b.pc = "detect" THEN <<<<"FRAME_EXTRACT", "start">>>> ELSE <<>>

Fetch ==
    /\ pc = "fetch"
    /\ LET C == _find_existing_video(fs, _extract_video_id(run.url)) IN
       \E found \in (IF C = {} THEN {NoFolder} ELSE C), ok \in BOOLEAN :
          IF run.resume /\ found # NoFolder
          THEN /\ ctx' = [ctx EXCEPT
                            !.folder = found,
                            !.video_id = _find_existing_metadata(found).video_id,
                            !.normalized_title =
                                _find_existing_metadata(found).normalized_title]
               /\ resumed' = resumed \cup {"FETCH"}
               /\ pc' = "transcribe"
               /\ bg' = BgStart(found, fs)
               /\ events' = events \o <<<<"FETCH", "resume">>>>
                                   \o FrameExtractEvent(BgStart(found, fs))
               /\ UNCHANGED <<fs, calls, snap>>
          ELSE IF ok
          THEN /\ fs' = [fs EXCEPT ![run.url].video = TRUE]
               /\ ctx' = [ctx EXCEPT
                            !.folder = run.url,
                            !.video_id = UrlInfo(run.url).id,
                            !.normalized_title = UrlInfo(run.url).title]
               /\ calls' = calls \cup {"download"}
               /\ snap' = ("video" :> TRUE)
               /\ pc' = "transcribe"
               /\ bg' = BgStart(run.url, fs)
               /\ events' = events \o <<<<"FETCH", "start">>>>
                                   \o Persisted("FETCH", snap, snap')
                                   \o FrameExtractEvent(BgStart(run.url, fs))
               /\ UNCHANGED resumed
          ELSE /\ pc' = AfterError("FETCH")
               /\ ctx' = [ctx EXCEPT !.error = "FETCH"]
               /\ calls' = calls \cup {"download"}
               /\ events' = Append(events, <<"FETCH", "start">>)
               /\ UNCHANGED <<fs, resumed, snap, bg>>
    /\ UNCHANGED <<voices, nclones, nruns, run, seen, out, prev, rt, fn, srv>>

\* fetch_youtube_transcript can only succeed for the id of a YouTube video
CaptionsPossible ==
    /\ ctx.video_id # None
    /\ UrlInfo(ctx.folder).yt
    /\ ctx.video_id = UrlInfo(ctx.folder).id

TranscribeOutcomes ==
    (IF CaptionsPossible THEN {"captions", "captions_killed"} ELSE {})
    \cup {"extract_fail", "whisper_ok", "whisper_empty", "whisper_fail",
          "whisper_killed"}

\* Stage 2 (pipeline.py 153-175, 342-380, 921-931)
Transcribe ==
    /\ pc = "transcribe"
    /\ \E o \in TranscribeOutcomes :
         IF run.resume /\ Folder.tr # "absent"
         THEN \* _find_existing_transcript: the file exists, load_transcript
              /\ seen' = [seen EXCEPT !.tr = Folder.tr]
              /\ IF Folder.tr = "partial"
                 THEN /\ pc' = AfterError("TRANSCRIBE")
                      /\ ctx' = [ctx EXCEPT !.error = "TRANSCRIBE"]
                      /\ fs' = FsOnError(fs, ctx.folder)
                      /\ UNCHANGED resumed
                 ELSE /\ pc' = "condense"
                      /\ ctx' = [ctx EXCEPT !.tr = Folder.tr]
                      /\ resumed' = resumed \cup {"TRANSCRIBE"}
                      /\ UNCHANGED fs
              /\ UNCHANGED <<calls, snap>>
         ELSE \* _transcribe_video
              /\ UNCHANGED <<seen, resumed>>
              /\ CASE o = "captions" ->
                        /\ fs' = PutFolder("tr", "valid")
                        /\ ctx' = [ctx EXCEPT !.tr = "valid"]
                        /\ calls' = calls \cup {"transcribe"}
                        /\ snap' = ("tr" :> "valid") @@ snap
                        /\ pc' = "condense"
                   [] o = "captions_killed" ->
                        /\ fs' = PutFolder("tr", "partial")
                        /\ calls' = calls \cup {"transcribe"}
                        /\ pc' = "killed"
                        /\ UNCHANGED <<ctx, snap>>
                   [] o = "extract_fail" /\ ~Folder.audio ->
                        /\ pc' = AfterError("TRANSCRIBE")
                        /\ ctx' = [ctx EXCEPT !.error = "TRANSCRIBE"]
                        /\ fs' = FsOnError(fs, ctx.folder)
                        /\ UNCHANGED <<calls, snap>>
                   [] o = "whisper_fail" ->
                        /\ pc' = AfterError("TRANSCRIBE")
                        /\ ctx' = [ctx EXCEPT !.error = "TRANSCRIBE"]
                        /\ fs' = FsOnError(PutFolder("audio", TRUE), ctx.folder)
                        /\ calls' = calls \cup {"transcribe"}
                        /\ UNCHANGED snap
                   [] o = "whisper_killed" ->
                        /\ fs' = [fs EXCEPT ![ctx.folder].audio = TRUE,
                                            ![ctx.folder].tr = "partial"]
                        /\ calls' = calls \cup {"transcribe"}
                        /\ pc' = "killed"
                        /\ UNCHANGED <<ctx, snap>>
                   [] OTHER ->
                        LET t == IF o = "whisper_empty" THEN "emptytext" ELSE "valid" IN
                        /\ fs' = [fs EXCEPT ![ctx.folder].audio = TRUE,
                                            ![ctx.folder].tr = t]
                        /\ ctx' = [ctx EXCEPT !.tr = t]
                        /\ calls' = calls \cup {"transcribe"}
                        /\ snap' = ("audio" :> TRUE) @@ ("tr" :> t) @@ snap
                        /\ pc' = "condense"
    /\ events' = (IF run.resume /\ Folder.tr = "partial" THEN events
                  ELSE IF run.resume /\ Folder.tr # "absent"
                  THEN Append(events, <<"TRANSCRIBE", "resume">>)
                  ELSE Append(events, <<"TRANSCRIBE", "start">>))
                 \o Persisted("TRANSCRIBE", snap, snap')
    /\ UNCHANGED <<voices, nclones, nruns, run, out, prev, bg, rt, fn, srv>>

\* Stage 3 (pipeline.py 177-203, 382-403, 933-941).  A condensed script that
\* fails validate_condensed_script raises like a failed call: nothing is saved.
Condense ==
    /\ pc = "condense"
    /\ \E o \in {"ok", "fail", "killed"} :
         IF run.resume /\ Folder.cond.st # "absent"
         THEN \* _find_existing_condensed_script: the file exists, load it
              /\ seen' = [seen EXCEPT !.cond = Folder.cond.st]
              /\ IF Folder.cond.st = "partial"
                 THEN /\ pc' = AfterError("CONDENSE")
                      /\ ctx' = [ctx EXCEPT !.error = "CONDENSE"]
                      /\ fs' = FsOnError(fs, ctx.folder)
                      /\ UNCHANGED resumed
                 ELSE /\ pc' = "voice"
                      /\ ctx' = [ctx EXCEPT !.cond = Folder.cond]
                      /\ resumed' = resumed \cup {"CONDENSE"}
                      /\ UNCHANGED fs
              /\ UNCHANGED <<calls, snap>>
         ELSE \* _condense_transcript
              /\ calls' = calls \cup {"condense"}
              /\ UNCHANGED <<seen, resumed>>
              /\ CASE o = "ok" ->
                        LET c == [st |-> "valid", aggr |-> run.aggr] IN
                        /\ fs' = PutFolder("cond", c)
                        /\ ctx' = [ctx EXCEPT !.cond = c]
                        /\ snap' = ("cond" :> c) @@ snap
                        /\ pc' = "voice"
                   [] o = "killed" ->
                        /\ fs' = PutFolder("cond", [st |-> "partial", aggr |-> 0])
                        /\ pc' = "killed"
                        /\ UNCHANGED <<ctx, snap>>
                   [] OTHER ->
                        /\ pc' = AfterError("CONDENSE")
                        /\ ctx' = [ctx EXCEPT !.error = "CONDENSE"]
                        /\ fs' = FsOnError(fs, ctx.folder)
                        /\ UNCHANGED snap
    /\ events' = (IF run.resume /\ Folder.cond.st = "partial" THEN events
                  ELSE IF run.resume /\ Folder.cond.st # "absent"
                  THEN Append(events, <<"CONDENSE", "resume">>)
                  ELSE Append(events, <<"CONDENSE", "start">>))
                 \o Persisted("CONDENSE", snap, snap')
    /\ UNCHANGED <<voices, nclones, nruns, run, out, prev, bg, rt, fn, srv>>

\* Stage 4 (pipeline.py 205-218, 405-458): _clone_voice cuts its samples
\* from extracted_audio.wav, which only the Whisper path extracts.
Voice ==
    /\ pc = "voice"
    /\ \E ok \in BOOLEAN :
         IF run.provider = "edge" \/ run.skip
         THEN /\ ctx' = [ctx EXCEPT !.used_voice_id = run.voice,
                                    !.cleanup_voice = FALSE]
              /\ pc' = "speech"
              /\ UNCHANGED <<fs, voices, nclones, calls>>
         ELSE IF ~Folder.audio
         THEN /\ pc' = AfterError("VOICE_CLONE")
              /\ ctx' = [ctx EXCEPT !.error = "VOICE_CLONE"]
              /\ fs' = FsOnError(fs, ctx.folder)
              /\ UNCHANGED <<voices, nclones, calls>>
         ELSE IF ok
         THEN /\ nclones' = nclones + 1
              /\ voices' = voices \cup {ClonedVoice(nclones + 1)}
              /\ ctx' = [ctx EXCEPT !.used_voice_id = ClonedVoice(nclones + 1),
                                    !.cleanup_voice = TRUE]
              /\ calls' = calls \cup {"clone"}
              /\ pc' = "speech"
              /\ UNCHANGED fs
         ELSE /\ pc' = AfterError("VOICE_CLONE")
              /\ ctx' = [ctx EXCEPT !.error = "VOICE_CLONE"]
              /\ fs' = FsOnError(fs, ctx.folder)
              /\ calls' = calls \cup {"clone"}
              /\ UNCHANGED <<voices, nclones>>
    /\ events' = Append(events, <<"VOICE_CLONE",
                                   IF run.provider = "edge" \/ run.skip
                                   THEN "skip" ELSE "start">>)
    /\ UNCHANGED <<nruns, run, resumed, seen, out, prev, snap, bg, rt, fn, srv>>

\* EdgeTTS.generate_speech(text, output_path, voice) takes no rate argument,
\* and _generate_speech passes rate=tts_rate: the call raises TypeError.
EdgeAcceptsRate == FALSE

\* Stage 5 (pipeline.py 220-233, 460-488, 943-953): the resume lookup only
\* asks whether the normalized file exists.
Speech ==
    /\ pc = "speech"
    /\ LET key == SpeechKey(run.provider, ctx.used_voice_id)
           old == SpeechAt(Folder, key) IN
       \E o \in {"ok", "fail", "killed_empty", "killed_partial"} :
         IF run.resume /\ old.st # "absent"
         THEN /\ seen' = [seen EXCEPT !.speech = old.st]
              /\ ctx' = [ctx EXCEPT !.speech = old]
              /\ resumed' = resumed \cup {"VOICE_GENERATE"}
              /\ pc' = "render"
              /\ UNCHANGED <<fs, calls, snap>>
         ELSE IF run.provider = "edge" /\ ~EdgeAcceptsRate
         THEN /\ pc' = AfterError("VOICE_GENERATE")
              /\ ctx' = [ctx EXCEPT !.error = "VOICE_GENERATE"]
              /\ fs' = FsOnError(fs, ctx.folder)
              /\ UNCHANGED <<seen, resumed, calls, snap>>
         ELSE /\ calls' = calls \cup {"speech"}
              /\ UNCHANGED <<seen, resumed>>
              /\ CASE o = "ok" ->
                        LET file == [st |-> "ok", voice |-> ctx.used_voice_id,
                                     aggr |-> ctx.cond.aggr,
                                     dur |-> SpeechSeconds(ctx.cond.aggr)] IN
                        /\ fs' = PutFolder("speech", PutSpeech(Folder.speech, key, file))
                        /\ ctx' = [ctx EXCEPT !.speech = file]
                        /\ snap' = ("speech" :> file) @@ snap
                        /\ pc' = "render"
                   [] o = "fail" ->
                        /\ pc' = AfterError("VOICE_GENERATE")
                        /\ ctx' = [ctx EXCEPT !.error = "VOICE_GENERATE"]
                        /\ fs' = FsOnError(fs, ctx.folder)
                        /\ UNCHANGED snap
                   [] OTHER ->
                        LET file == [st |-> IF o = "killed_empty" THEN "empty"
                                            ELSE "partial",
                                     voice |-> ctx.used_voice_id,
                                     aggr |-> ctx.cond.aggr, dur |-> 0] IN
                        /\ fs' = PutFolder("speech", PutSpeech(Folder.speech, key, file))
                        /\ pc' = "killed"
                        /\ UNCHANGED <<ctx, snap>>
    /\ events' = Append(events,
                        <<"VOICE_GENERATE",
                          IF run.resume
                             /\ SpeechAt(Folder, SpeechKey(run.provider,
                                                           ctx.used_voice_id)).st # "absent"
                          THEN "resume" ELSE "start">>)
                 \o Persisted("VOICE_GENERATE", snap, snap')
    /\ UNCHANGED <<voices, nclones, nruns, run, out, prev, bg, rt, fn, srv>>

\* Stage 6 (pipeline.py 235-272, 285-287, 511-548) for the modes other than
\* slideshow.  audio_only copies the speech file and returns from run();
\* static probes the speech file's duration, which fails on a truncated file.
NeverShortCircuits(mode) == FALSE

\* pipeline.py 236: if video_gen_mode == "audio_only"
ShortCircuits(mode) == mode = "audio_only"

Render ==
    /\ pc = "render"
    /\ run.mode # "slideshow"
    /\ \E ok \in BOOLEAN :
         IF ShortCircuits(run.mode)
         THEN \* shutil.copy(generated_audio_path, output_path), return
              /\ out' = OutputPath(ctx, run.provider, "mp3")
              /\ ctx' = [ctx EXCEPT !.output_audio = ctx.speech]
              /\ pc' = "done"
              /\ UNCHANGED <<fs, calls, snap>>
         ELSE IF ok /\ ctx.speech.st = "ok"
         THEN /\ fs' = PutFolder("gen", TRUE)
              /\ calls' = calls \cup {"render"}
              /\ snap' = ("gen" :> TRUE) @@ snap
              /\ pc' = "compose"
              /\ UNCHANGED <<ctx, out>>
         ELSE /\ pc' = AfterError("VIDEO_GENERATE")
              /\ ctx' = [ctx EXCEPT !.error = "VIDEO_GENERATE"]
              /\ fs' = FsOnError(fs, ctx.folder)
              /\ calls' = calls \cup {"render"}
              /\ UNCHANGED <<out, snap>>
    /\ events' = IF ShortCircuits(run.mode)
                 THEN events \o <<<<"AUDIO_ONLY", "skip">>, <<"COMPLETE", "complete">>>>
                 ELSE Append(events, <<"VIDEO_GENERATE", "start">>)
                      \o Persisted("VIDEO_GENERATE", snap, snap')
    /\ UNCHANGED <<voices, nclones, nruns, run, resumed, seen, prev, bg, rt, fn, srv>>

\* Stage 7 (pipeline.py 289-305)
Compose ==
    /\ pc = "compose"
    /\ \E ok \in BOOLEAN :
         IF ok
         THEN /\ out' = OutputPath(ctx, run.provider, "mp4")
              /\ pc' = "cleanup"
              /\ UNCHANGED <<fs, ctx>>
         ELSE /\ pc' = AfterError("COMPOSE")
              /\ ctx' = [ctx EXCEPT !.error = "COMPOSE"]
              /\ fs' = FsOnError(fs, ctx.folder)
              /\ UNCHANGED out
    /\ calls' = calls \cup {"compose"}
    /\ events' = Append(events, <<"COMPOSE", "start">>)
    /\ UNCHANGED <<voices, nclones, nruns, run, resumed, seen, prev, snap, bg, rt, fn, srv>>

AlwaysDeletesVoice(c) == c.used_voice_id # None

\* pipeline.py 308: if cleanup_voice
DeletesVoice(c) == c.cleanup_voice

\* pipeline.py 307-330: delete_voice swallows its own failures
Cleanup ==
    /\ pc = "cleanup"
    /\ \E ok \in BOOLEAN :
         voices' = IF DeletesVoice(ctx) /\ ok
                   THEN voices \ {ctx.used_voice_id} ELSE voices
    /\ ctx' = [ctx EXCEPT !.deleted = IF DeletesVoice(ctx) THEN ctx.used_voice_id
                                      ELSE None]
    /\ calls' = IF DeletesVoice(ctx) THEN calls \cup {"delete_voice"} ELSE calls
    /\ pc' = "done"
    /\ events' = events \o <<<<"CLEANUP", "start">>, <<"COMPLETE", "complete">>>>
    /\ UNCHANGED <<fs, nclones, nruns, run, resumed, seen,
                   out, prev, snap, bg, rt, fn, srv>>

\* The stage whose first update_progress call the run makes next
StageAt(p) ==
    CASE p = "fetch" -> "FETCH"
      [] p = "transcribe" -> "TRANSCRIBE"
      [] p = "condense" -> "CONDENSE"
      [] p = "voice" -> "VOICE_CLONE"
      [] p = "speech" -> "VOICE_GENERATE"
      [] p = "render" -> IF run.mode = "audio_only" THEN "AUDIO_ONLY"
                         ELSE "VIDEO_GENERATE"
      [] p = "compose" -> "COMPOSE"
      [] OTHER -> "CLEANUP"

\* update_progress (pipeline.py 85-89) with a progress_callback that raises
\* or does not return.  The call is made in run()'s own thread, inside the
\* try block: an exception reaches the except clause, which re-raises, and a
\* call that does not return leaves run() inside update_progress.
UpdateProgress ==
    /\ pc \in {"fetch", "transcribe", "condense", "voice", "speech", "render",
               "compose", "cleanup"}
    /\ ~(pc = "transcribe" /\ run.resume /\ Folder.tr = "partial")
    /\ ~(pc = "condense" /\ run.resume /\ Folder.cond.st = "partial")
    /\ \E o \in {"raises", "hangs"} :
         /\ pc' = IF o = "raises" THEN AfterError(StageAt(pc)) ELSE "blocked"
         /\ ctx' = [ctx EXCEPT !.callback = o,
                               !.error = IF o = "raises" THEN StageAt(pc) ELSE @]
    /\ events' = Append(events, <<StageAt(pc), "start">>)
    /\ fs' = FsOnError(fs, ctx.folder)
    /\ UNCHANGED <<voices, nclones, nruns, run, calls, resumed, seen, out, prev,
                   snap, bg, rt, fn, srv>>

----------------------------------------------------------------------------
(* Slideshow mode: the background worker and _generate_video_slideshow *)

\* scenes PySceneDetect finds in a source video, when it finds any
NScenes == 3

FallbackFrames == 10

AutoFallbackCap == 10

AutoFramesCap == 15

Min(a, b) == IF a <= b THEN a ELSE b

\* scenes[:m], the first m scenes
Truncate(n, m) == [i \in 1..m |-> i - 1]

\* A step rounded down to a whole number of scenes: step = n // m
IntegerStep(n, m) == [i \in 1..m |-> (i - 1) * (n \div m)]

\* [scenes[int(i * step)] for i in range(m)] with step = n / m, as scene ids.
\* For the list lengths used here the float product i * (n / m) truncates to
\* the same integer as the exact quotient.
Stride(n, m) == [i \in 1..m |-> ((i - 1) * n) \div m]

SelectedScenes(n, m) == IF n > m THEN Stride(n, m) ELSE [i \in 1..n |-> i - 1]

Range(s) == {s[i] : i \in 1..Len(s)}

\* Length in seconds of each scene of the source video
SceneSeconds == 4

\* detect_scene_changes: scene_id = i and the scene's start_time, in list order
DetectedScenes(n) ==
    [i \in 1..n |-> [scene_id |-> i - 1, start_time |-> (i - 1) * SceneSeconds]]

\* get_audio_duration(source_video_path)
SourceSeconds == NScenes * SceneSeconds

\* frames/scene_{scene_id:03d}.jpg and frames/slideshow_frame_{i:03d}.jpg
SceneFrame(id) == [kind |-> "scene", id |-> id]

FallbackFrame(i) == [kind |-> "slideshow_frame", id |-> i]

\* sorted(frames_dir.glob(...)): the frames of a set of ids, by file name
RECURSIVE SortedFrames(_, _)
SortedFrames(kind, ids) ==
    IF ids = {} THEN <<>>
    ELSE LET lo == CHOOSE x \in ids : \A y \in ids : x <= y IN
         <<[kind |-> kind, id |-> lo]>> \o SortedFrames(kind, ids \ {lo})

\* scene_dict.get(scene_id)
HasScene(scenes, id) == \E i \in 1..Len(scenes) : scenes[i].scene_id = id

SceneOf(scenes, id) ==
    scenes[CHOOSE i \in 1..Len(scenes) : scenes[i].scene_id = id]

\* A time is kept as the numerator of a fraction whose denominator the
\* timing list carries in den: source_duration for the proportional mapping,
\* len(frame_paths) for the equal-duration one.

\* show_at as the position of the frame on the source timeline, unmapped
SourcePosition(start_time, source_duration, condensed_duration) ==
    start_time * source_duration

\* scene['start_time'] / source_duration * condensed_duration
ShowAt(start_time, source_duration, condensed_duration) ==
    start_time * condensed_duration

\* pipeline.py 732-754: the frames that have a scene, mapped and sorted
Proportional(frame_paths, scenes, sd, cd) ==
    LET mp == SelectSeq(frame_paths,
                        LAMBDA fp : fp.kind = "scene" /\ HasScene(scenes, fp.id)) IN
    SortSeq([i \in 1..Len(mp) |->
                [path |-> mp[i],
                 show_at |-> ShowAt(SceneOf(scenes, mp[i].id).start_time, sd, cd),
                 scene_id |-> mp[i].id]],
            LAMBDA a, b : a.show_at < b.show_at)

\* Frames counted from 1: show_at = (i + 1) * frame_duration
CountedFromOne(frame_paths, cd) ==
    [i \in 1..Len(frame_paths) |->
        [path |-> frame_paths[i], show_at |-> i * cd, scene_id |-> i - 1]]

\* pipeline.py 757-767
EqualDuration(frame_paths, cd) ==
    [i \in 1..Len(frame_paths) |->
        [path |-> frame_paths[i], show_at |-> (i - 1) * cd, scene_id |-> i - 1]]

\* pipeline.py 769-776: total is condensed_duration
WithDurations(ft, total) ==
    [i \in 1..Len(ft) |->
        [path |-> ft[i].path, show_at |-> ft[i].show_at, scene_id |-> ft[i].scene_id,
         duration |-> IF i < Len(ft) THEN ft[i + 1].show_at - ft[i].show_at
                      ELSE total - ft[i].show_at]]

\* pipeline.py 725-776, for len(frame_paths) > 0 and source_duration > 0
FrameTimings(frame_paths, scenes, sd, cd) ==
    LET prop == IF scenes # <<>>
                   /\ \E i \in 1..Len(frame_paths) : frame_paths[i].kind = "scene"
                THEN Proportional(frame_paths, scenes, sd, cd) ELSE <<>>
        den == IF prop # <<>> THEN sd ELSE Len(frame_paths)
        ft == IF prop # <<>> THEN prop ELSE EqualDuration(frame_paths, cd) IN
    [den |-> den, proportional |-> prop # <<>>,
     timings |-> WithDurations(ft, cd * den)]

StartRunSlideshow ==
    \E r \in BOOLEAN, a \in Aggr, g \in BOOLEAN :
        StartRunWith([url |-> "U1", resume |-> r, aggr |-> a,
                      provider |-> "elevenlabs", skip |-> TRUE,
                      voice |-> <<"v", "1">>, mode |-> "slideshow",
                      frames_given |-> g, max_frames |-> IF g THEN 2 ELSE 0])

\* _extract_frames_early (pipeline.py 568-609): detection, scenes.json and the
\* choice of the frames to extract.  Every exception ends the worker quietly.
BgDetect ==
    /\ bg.pc = "detect"
    /\ \E n \in {0, NScenes}, ok \in BOOLEAN :
         IF ~ok
         THEN /\ bg' = [bg EXCEPT !.pc = "done"]
              /\ UNCHANGED fs
         ELSE IF n = 0
         THEN LET num == IF run.frames_given THEN run.max_frames ELSE FallbackFrames IN
              /\ bg' = [bg EXCEPT !.pc = IF num = 0 THEN "done" ELSE "fallback",
                                  !.left = num]
              /\ UNCHANGED fs
         ELSE LET num == Min(n, IF run.frames_given THEN run.max_frames
                                ELSE AutoFramesCap) IN
              /\ fs' = [fs EXCEPT ![bg.folder].scenes = n]
              /\ bg' = [bg EXCEPT !.pc = IF num = 0 THEN "done" ELSE "frames",
                                  !.todo = IF num = 0 THEN <<>>
                                           ELSE SelectedScenes(n, num)]
    /\ UNCHANGED <<voices, nclones, nruns, run, pc, ctx, calls, resumed, seen,
                   out, prev, snap, events, rt, fn, srv>>

\* pipeline.py 582-585 and 613-616: one extract_frame call
BgWrite ==
    /\ bg.pc \in {"frames", "fallback"}
    /\ \E ok \in BOOLEAN :
         IF ~ok
         THEN /\ bg' = [bg EXCEPT !.pc = "done", !.todo = <<>>, !.left = 0]
              /\ UNCHANGED fs
         ELSE IF bg.pc = "frames"
         THEN /\ fs' = [fs EXCEPT ![bg.folder].frames = @ \cup {Head(bg.todo)}]
              /\ bg' = [bg EXCEPT !.todo = Tail(bg.todo),
                                  !.pc = IF Tail(bg.todo) = <<>> THEN "done"
                                         ELSE "frames"]
         ELSE /\ fs' = [fs EXCEPT ![bg.folder].fallback = @ + 1]
              /\ bg' = [bg EXCEPT !.left = bg.left - 1,
                                  !.pc = IF bg.left = 1 THEN "done" ELSE "fallback"]
    /\ UNCHANGED <<voices, nclones, nruns, run, pc, ctx, calls, resumed, seen,
                   out, prev, snap, events, rt, fn, srv>>

\* pipeline.py 273-283: future.result(timeout=300) returns once the worker
\* has finished, or raises TimeoutError, which is logged and dropped.
WaitFrames ==
    /\ pc = "render"
    /\ run.mode = "slideshow"
    /\ pc' = "slideshow"
    /\ ctx' = [ctx EXCEPT !.timed_out = bg.pc \notin {"off", "done"}]
    /\ events' = events
                    \o (IF bg.pc # "off" THEN <<<<"VIDEO_GENERATE", "wait">>>> ELSE <<>>)
                    \o <<<<"VIDEO_GENERATE", "start">>>>
    /\ UNCHANGED <<fs, voices, nclones, nruns, run, calls, resumed, seen, out,
                   prev, snap, bg, rt, fn, srv>>

\* pipeline.py 653-723: the frames the slideshow is built from.  Frames found
\* in frames/ are used as they are; otherwise the main thread detects scenes
\* and extracts the frames itself; extract_scene_keyframes drops the frames
\* whose extraction fails (video_utils.py 225-229) and returns those in kept.
SlideshowFrames(F, cd, n, kept) ==
    IF F.frames # {} \/ F.fallback > 0
    THEN [scenes |-> F.scenes, frames |-> F.frames, fallback |-> F.fallback,
          count |-> IF F.frames # {} THEN Cardinality(F.frames) ELSE F.fallback,
          inline |-> FALSE, zerodiv |-> FALSE]
    ELSE IF n = 0
    THEN LET num == IF run.frames_given THEN run.max_frames
                    ELSE Min(AutoFallbackCap, cd \div 5) IN
         [scenes |-> F.scenes, frames |-> {}, fallback |-> num, count |-> num,
          inline |-> TRUE, zerodiv |-> FALSE]
    ELSE LET m == IF run.frames_given THEN run.max_frames
                  ELSE Min(AutoFramesCap, cd \div 4) IN
         IF n > m /\ m = 0
         THEN [scenes |-> n, frames |-> {}, fallback |-> 0, count |-> 0,
               inline |-> TRUE, zerodiv |-> TRUE]
         ELSE [scenes |-> n, frames |-> Range(SelectedScenes(n, m)) \cap kept,
               fallback |-> 0,
               count |-> Cardinality(Range(SelectedScenes(n, m)) \cap kept),
               inline |-> TRUE, zerodiv |-> FALSE]

\* frame_paths and scenes as pipeline.py 725-776 receives them
FramePaths(p) ==
    IF p.frames # {} THEN SortedFrames("scene", p.frames)
    ELSE SortedFrames("slideshow_frame", 0..(p.fallback - 1))

\* _generate_video_slideshow (pipeline.py 624-837)
GenerateSlideshow ==
    /\ pc = "slideshow"
    /\ \E n \in {0, NScenes}, ok \in BOOLEAN, kept \in SUBSET (0..(NScenes - 1)) :
         IF ctx.speech.st # "ok"
         THEN \* get_audio_duration(audio_path) fails
              /\ pc' = AfterError("VIDEO_GENERATE")
              /\ ctx' = [ctx EXCEPT !.error = "VIDEO_GENERATE"]
              /\ fs' = FsOnError(fs, ctx.folder)
              /\ UNCHANGED <<calls, snap>>
         ELSE LET p == SlideshowFrames(Folder, ctx.speech.dur, n, kept)
                  ft == FrameTimings(FramePaths(p), DetectedScenes(p.scenes),
                                     SourceSeconds, ctx.speech.dur)
                  f1 == [fs EXCEPT ![ctx.folder].scenes = p.scenes,
                                   ![ctx.folder].frames = p.frames,
                                   ![ctx.folder].fallback = p.fallback] IN
              IF p.zerodiv \/ p.count = 0
              THEN \* n / max_frames, or condensed_duration / len(frame_paths)
                   /\ pc' = AfterError("VIDEO_GENERATE")
                   /\ ctx' = [ctx EXCEPT !.error = "VIDEO_GENERATE",
                                         !.inline = p.inline]
                   /\ fs' = FsOnError(f1, ctx.folder)
                   /\ UNCHANGED <<calls, snap>>
              ELSE IF ok
              THEN /\ pc' = "compose"
                   /\ ctx' = [ctx EXCEPT !.inline = p.inline, !.nframes = p.count,
                                         !.timings = ft]
                   /\ fs' = [f1 EXCEPT ![ctx.folder].gen = TRUE]
                   /\ calls' = calls \cup {"render"}
                   /\ snap' = ("gen" :> TRUE) @@ snap
              ELSE /\ pc' = AfterError("VIDEO_GENERATE")
                   /\ ctx' = [ctx EXCEPT !.error = "VIDEO_GENERATE",
                                         !.inline = p.inline]
                   /\ fs' = FsOnError(f1, ctx.folder)
                   /\ calls' = calls \cup {"render"}
                   /\ UNCHANGED snap
    /\ events' = events \o Persisted("VIDEO_GENERATE", snap, snap')
    /\ UNCHANGED <<voices, nclones, nruns, run, resumed, seen, out, prev, bg,
                   rt, fn, srv>>

----------------------------------------------------------------------------
(* ContentCondenser.condense: the retry loop (condenser.py 176-309) *)

\* What str(api_error) holds, as the set of its words
ApiErrors ==
    {{"401"}, {"529"}, {"Overloaded"}, {"rate_limit"}, {"Timeout"}, {"connection"},
     {"401", "body"}}

NoError == {}

lower(w) ==
    CASE w = "Overloaded" -> "overloaded"
      [] w = "Timeout" -> "timeout"
      [] OTHER -> w

\* A classifier that retries every error
AlwaysRetryable(e) == TRUE

\* condenser.py 234-240
is_retryable(e) ==
    \/ "529" \in e
    \/ \E w \in e : lower(w) \in {"overloaded", "rate_limit", "timeout", "connection"}

\* A backoff that does not grow
ConstantDelay(d, attempt) == d

\* condenser.py 247: initial_retry_delay * (2 ** attempt)
BackoffDelay(d, attempt) == d * (2 ^ attempt)

\* The generic handler (condenser.py 299-309) calls
\* extract_api_error_message(e, "Anthropic"); the function takes one argument.
HandlerRaises == "TypeError"

\* audio_utils.py 12: def extract_api_error_message(error)
ExtractParams == 1

\* The word "body" stands for a "body: {...}" part of str(error) that holds
\* a vendor message (audio_utils.py 12-75); "none" is the None it returns.
extract_api_error_message(e) == IF "body" \in e THEN "vendor message" ELSE "none"

Services == {"transcribe", "condense", "clone", "speech", "avatar"}

\* The arguments each service's except clause passes to
\* extract_api_error_message: (e, "OpenAI"), (e, "Anthropic"), (e, "D-ID"),
\* and (e) in voice_cloner.py
HandlerArgs(s) == IF s \in {"clone", "speech"} THEN 1 ELSE 2

\* What a service's generic except clause raises for the error e
\* (transcriber.py 140-150, condenser.py 299-309, voice_cloner.py 66-75 and
\* 126-135, video_generator.py 95-105)
ServiceRaises(s, e) ==
    IF s = "avatar"
    THEN \* an HTTP error of requests: except RequestException, lines 89-93
         [type |-> "RuntimeError", message |-> "Failed to: error"]
    ELSE IF HandlerArgs(s) # ExtractParams
    THEN [type |-> "TypeError", message |-> "takes 1 positional argument"]
    ELSE IF s \in {"clone", "speech"}
    THEN [type |-> "RuntimeError", message |-> "Failed to: error"]
    ELSE IF extract_api_error_message(e) # "none"
    THEN [type |-> "ApiError", message |-> extract_api_error_message(e)]
    ELSE [type |-> "RuntimeError", message |-> "Failed to: error"]

RtIdle ==
    [pc |-> "idle", max_retries |-> 0, initial_retry_delay |-> 0, attempt |-> 0,
     attempts |-> 0, transients |-> 0, slept |-> <<>>, last_error |-> NoError,
     response |-> "none", raised |-> "none", service |-> "none",
     message |-> "none"]

InitRetryIdle == rt = RtIdle

\* A call of condense(); initial_retry_delay is a positive number of seconds
CondenseCall ==
    /\ rt.pc \in {"idle", "returned", "raised"}
    /\ \E m \in 0..MaxRetriesBound, d \in 1..MaxDelay :
         rt' = [RtIdle EXCEPT !.pc = "attempt", !.max_retries = m,
                              !.initial_retry_delay = d, !.service = "condense"]
    /\ UNCHANGED <<pipeVars, fn, srv>>

\* One iteration of the loop (condenser.py 179-252): the API call, then break,
\* raise, or sleep and go round again
ApiAttempt ==
    /\ rt.pc = "attempt"
    /\ rt.attempt <= rt.max_retries
    /\ \E r \in {"json", "malformed", "error"}, o \in ApiErrors :
         IF r # "error"
         THEN rt' = [rt EXCEPT !.attempts = @ + 1, !.response = r, !.pc = "parse"]
         ELSE IF ~is_retryable(o) \/ rt.attempt >= rt.max_retries
         THEN rt' = [rt EXCEPT !.attempts = @ + 1, !.last_error = o,
                               !.transients = IF is_retryable(o) THEN @ + 1 ELSE @,
                               !.pc = "raised", !.raised = HandlerRaises,
                               !.message = ServiceRaises("condense", o).message]
         ELSE rt' = [rt EXCEPT !.attempts = @ + 1, !.last_error = o,
                               !.transients = @ + 1,
                               !.slept = Append(@, BackoffDelay(rt.initial_retry_delay,
                                                                rt.attempt)),
                               !.attempt = @ + 1]
    /\ UNCHANGED <<pipeVars, fn, srv>>

\* condenser.py 254-297: json.loads of the response text
ParseResponse ==
    /\ rt.pc = "parse"
    /\ rt' = IF rt.response = "json"
             THEN [rt EXCEPT !.pc = "returned"]
             ELSE [rt EXCEPT !.pc = "raised", !.raised = "RuntimeError",
                             !.message = "Failed to parse condensed content"]
    /\ UNCHANGED <<pipeVars, fn, srv>>

\* The services other than condensation: transcribe, clone_voice,
\* generate_speech and generate_video make their API call once, inside a try
\* whose except clause raises (transcriber.py 127-150, voice_cloner.py 42-75
\* and 96-135, video_generator.py 50-105).
DirectCall ==
    /\ rt.pc \in {"idle", "returned", "raised"}
    /\ \E s \in Services \ {"condense"}, ok \in BOOLEAN, o \in ApiErrors :
         rt' = IF ok
               THEN [RtIdle EXCEPT !.service = s, !.attempts = 1,
                                   !.response = "ok", !.pc = "returned"]
               ELSE [RtIdle EXCEPT !.service = s, !.attempts = 1,
                                   !.last_error = o,
                                   !.transients = IF is_retryable(o) THEN 1 ELSE 0,
                                   !.pc = "raised",
                                   !.raised = ServiceRaises(s, o).type,
                                   !.message = ServiceRaises(s, o).message]
    /\ UNCHANGED <<pipeVars, fn, srv>>

----------------------------------------------------------------------------
(* The web front-end (server/app.py) *)

\* POST /api/condense requests the server receives
MaxRequests == 4

Requests == 1..MaxRequests

NoJob == 0

\* currently_processing, the keys of jobs (a request's job id is its own
\* number: uuid4 ids do not repeat), each Job's status and whether its
\* output_file is set, each request handler's position, each process_video
\* thread's position and the answer to the last GET /api/download
NoDownload == [job |-> NoJob, response |-> "none"]

ServerIdle ==
    [currently_processing |-> NoJob, jobs |-> {},
     status |-> [r \in Requests |-> "none"],
     output_file |-> [r \in Requests |-> FALSE],
     handler |-> [r \in Requests |-> "none"],
     thread |-> [r \in Requests |-> "none"],
     download |-> NoDownload]

InitServer == srv = ServerIdle

\* A server that takes every request
NeverBusy(cp) == FALSE

\* app.py 685: if currently_processing
Busy(cp) == cp # NoJob

\* condense() up to the end of the with current_job_lock block (app.py
\* 672-695); the lock makes the test and the assignment one step.  Job() sets
\* status = "queued" (app.py 36).
CondenseRequest ==
    \E r \in Requests :
        /\ srv.handler[r] = "none"
        /\ IF Busy(srv.currently_processing)
           THEN srv' = [srv EXCEPT !.handler[r] = "429"]
           ELSE srv' = [srv EXCEPT !.handler[r] = "accepted",
                                   !.jobs = @ \cup {r},
                                   !.status[r] = "queued",
                                   !.currently_processing = r]
        /\ UNCHANGED <<pipeVars, rt, fn>>

\* app.py 698-706 and 54-60: the thread is started, the handler answers
\* 'queued', process_video sets the status and calls pipeline.run
StartThread ==
    \E r \in Requests :
        /\ srv.handler[r] = "accepted"
        /\ srv' = [srv EXCEPT !.handler[r] = "queued", !.thread[r] = "running",
                              !.status[r] = "processing"]
        /\ UNCHANGED <<pipeVars, rt, fn>>

\* app.py 83-95: pipeline.run returns and job.output_file is set
SetOutputFile ==
    \E r \in Requests :
        /\ srv.thread[r] = "running"
        /\ ~srv.output_file[r]
        /\ srv' = [srv EXCEPT !.output_file[r] = TRUE]
        /\ UNCHANGED <<pipeVars, rt, fn>>

\* app.py 96-98, or 62-93 raising and 100-105: the job's final status
RunEnds ==
    \E r \in Requests, o \in {"completed", "error"} :
        /\ srv.thread[r] = "running"
        /\ srv.output_file[r] <=> o = "completed"
        /\ srv' = [srv EXCEPT !.thread[r] = o, !.status[r] = o]
        /\ UNCHANGED <<pipeVars, rt, fn>>

\* A slot given back only by the runs that succeed
ReleasesOnSuccess(outcome) == outcome = "completed"

\* app.py 107: finally, after the try body and after the except clause
Releases(outcome) == outcome \in {"completed", "error"}

\* app.py 106-109: finally, with current_job_lock
ReleaseJob ==
    \E r \in Requests :
        /\ srv.thread[r] \in {"completed", "error"}
        /\ Releases(srv.thread[r])
        /\ srv' = [srv EXCEPT !.currently_processing = NoJob,
                              !.thread[r] = "ended_" \o srv.thread[r]]
        /\ UNCHANGED <<pipeVars, rt, fn>>

\* A download open to every job that has not failed
NotFailed(status) == status # "error"

\* app.py 744: if job.status != 'completed'
Ready(status) == status = "completed"

\* GET /api/download/<job_id> (app.py 736-754) for the id of any request;
\* exists is Path(job.output_file).exists()
Download ==
    \E r \in Requests, exists \in BOOLEAN :
        /\ srv' = [srv EXCEPT !.download =
                      [job |-> r,
                       response |-> IF r \notin srv.jobs THEN "404"
                                    ELSE IF ~Ready(srv.status[r]) THEN "400"
                                    ELSE IF ~srv.output_file[r] \/ ~exists THEN "404"
                                    ELSE "send_file"]]
        /\ UNCHANGED <<pipeVars, rt, fn>>

NextServer ==
    \/ CondenseRequest
    \/ StartThread
    \/ SetOutputFile
    \/ RunEnds
    \/ ReleaseJob
    \/ Download

----------------------------------------------------------------------------
(* Pure functions, applied to arguments drawn from bounded sets *)

NoCall == [op |-> "none", pc |-> "done"]

\* Latest start_time of a scene handed to the synchronizer
MaxStart == 3

\* get_audio_duration(source_video_path): every scene starts before the end
SourceDurations == {MaxStart + 1, MaxStart + 3}

\* get_audio_duration(audio_path): shorter than, equal to and longer than a source
CondensedDurations == {2, MaxStart + 1, 9}

\* Scene lists as detect_scene_changes returns them: the first scene starts at
\* 0 and the start times increase strictly.
SceneLists ==
    { [i \in 1..Cardinality(S) |->
          [scene_id |-> i - 1,
           start_time |-> CHOOSE t \in S : Cardinality({u \in S : u < t}) = i - 1]] :
      S \in {T \in SUBSET (0..MaxStart) : 0 \in T} }

\* The arguments of the synchronizer: the scenes of scenes.json and the frames
\* found in frames/ (some of the scenes' frames, or fallback frames without
\* scene data).
SyncArgs ==
    { [op |-> "sync", pc |-> "args", scenes |-> sc, frame_paths |-> fp,
       sd |-> sd, cd |-> cd, result |-> <<>>] :
      sc \in SceneLists,
      fp \in {SortedFrames("scene", I) : I \in (SUBSET (0..MaxStart)) \ {{}}},
      sd \in SourceDurations, cd \in CondensedDurations }

InitSync ==
    /\ InitPipeline
    /\ InitRetryIdle
    /\ InitServer
    /\ fn \in {a \in SyncArgs :
                 \A i \in 1..Len(a.frame_paths) : HasScene(a.scenes, a.frame_paths[i].id)}
              \cup
              { [op |-> "sync", pc |-> "args", scenes |-> <<>>,
                 frame_paths |-> SortedFrames("slideshow_frame", 0..(k - 1)),
                 sd |-> sd, cd |-> cd, result |-> <<>>] :
                k \in 1..2, sd \in SourceDurations, cd \in CondensedDurations }

\* pipeline.py 725-776 applied to the arguments
Synchronize ==
    /\ fn.op = "sync"
    /\ fn.pc = "args"
    /\ fn' = [fn EXCEPT !.pc = "done",
                        !.result = FrameTimings(fn.frame_paths, fn.scenes, fn.sd, fn.cd)]
    /\ UNCHANGED <<pipeVars, rt, srv>>

SpecSync == InitSync /\ [][Synchronize]_vars

\* Longest scene list and largest frame budget handed to extract_scene_keyframes
MaxSceneCount == 12

MaxBudget == 12

InitSample ==
    /\ InitPipeline
    /\ InitRetryIdle
    /\ InitServer
    /\ fn \in { [op |-> "sample", pc |-> "args", n |-> n, max_frames |-> m,
                 result |-> <<>>] :
                n \in 1..MaxSceneCount, m \in 1..MaxBudget }

\* video_utils.py 212-217 applied to the arguments
SelectScenes ==
    /\ fn.op = "sample"
    /\ fn.pc = "args"
    /\ fn' = [fn EXCEPT !.pc = "done",
                        !.result = SelectedScenes(fn.n, fn.max_frames)]
    /\ UNCHANGED <<pipeVars, rt, srv>>

SpecSample == InitSample /\ [][SelectScenes]_vars

\* Transcriber._transcribe_chunked (transcriber.py 198-261)

\* Most chunks split_audio_by_size cuts an oversized file into
MaxChunks == 3

\* Seconds get_audio_duration reports for a chunk
ChunkDurations == {1, 2}

\* What _transcribe_single returns for a chunk: the words of its text and its
\* segments, timed from the start of the chunk
ChunkTexts == {<<"a">>, <<"b", "c">>}

ChunkSegments ==
    {<<>>,
     <<[start |-> 0, end |-> 1, text |-> "a"]>>,
     <<[start |-> 0, end |-> 1, text |-> "b"], [start |-> 1, end |-> 2, text |-> "c"]>>}

Chunks ==
    [duration : ChunkDurations, text : ChunkTexts, segments : ChunkSegments,
     language : {"en"}]

\* A segment time left as the chunk reports it
Unshifted(t, time_offset) == t

\* seg['start'] + time_offset
Shifted(t, time_offset) == t + time_offset

\* ' '.join(all_text), a text being the sequence of its words and separators
RECURSIVE Join(_)
Join(all_text) ==
    IF all_text = <<>> THEN <<>>
    ELSE IF Len(all_text) = 1 THEN all_text[1]
    ELSE all_text[1] \o <<" ">> \o Join(Tail(all_text))

\* The loop of transcriber.py 215-241 from chunk i on, time_offset being the
\* sum of the durations of the chunks before it
RECURSIVE ChunkLoop(_, _, _)
ChunkLoop(chunks, i, time_offset) ==
    IF i > Len(chunks) THEN <<>>
    ELSE [k \in 1..Len(chunks[i].segments) |->
             [start |-> Shifted(chunks[i].segments[k].start, time_offset),
              end |-> Shifted(chunks[i].segments[k].end, time_offset),
              text |-> chunks[i].segments[k].text]]
         \o ChunkLoop(chunks, i + 1, time_offset + chunks[i].duration)

RECURSIVE TotalDuration(_)
TotalDuration(chunks) ==
    IF chunks = <<>> THEN 0 ELSE Head(chunks).duration + TotalDuration(Tail(chunks))

_transcribe_chunked(chunks) ==
    [text |-> Join([i \in 1..Len(chunks) |-> chunks[i].text]),
     language |-> chunks[1].language,
     duration |-> TotalDuration(chunks),
     segments |-> ChunkLoop(chunks, 1, 0)]

\* An oversized file is split into at least two chunks (audio_utils.py 235)
InitChunks ==
    /\ InitPipeline
    /\ InitRetryIdle
    /\ InitServer
    /\ \E n \in 2..MaxChunks :
         fn \in { [op |-> "chunks", pc |-> "args", chunks |-> c, result |-> <<>>] :
                  c \in [1..n -> Chunks] }

TranscribeChunked ==
    /\ fn.op = "chunks"
    /\ fn.pc = "args"
    /\ fn' = [fn EXCEPT !.pc = "done", !.result = _transcribe_chunked(fn.chunks)]
    /\ UNCHANGED <<pipeVars, rt, srv>>

SpecChunks == InitChunks /\ [][TranscribeChunked]_vars

\* No transcript: nothing returned, no transcript.json
NoTranscript == [text |-> <<>>, language |-> "none", duration |-> 0, segments |-> <<>>]

\* The chunks without chunk k
Without(chunks, k) ==
    [i \in 1..(Len(chunks) - 1) |-> IF i < k THEN chunks[i] ELSE chunks[i + 1]]

\* A loop that drops the chunk whose transcription failed and goes on
SkipsFailedChunk(chunks, failed, e) ==
    [raised |-> "none",
     transcript |-> _transcribe_chunked(IF failed = 0 THEN chunks
                                        ELSE Without(chunks, failed))]

\* transcribe() on an oversized file (transcriber.py 128-150, 208-248):
\* _transcribe_single raises e on chunk `failed` (0: on none); the exception
\* leaves the loop through the finally clause and reaches transcribe()'s
\* except clause, which raises.
ChunkedOutcome(chunks, failed, e) ==
    IF failed = 0
    THEN [raised |-> "none", transcript |-> _transcribe_chunked(chunks)]
    ELSE [raised |-> ServiceRaises("transcribe", e).type, transcript |-> NoTranscript]

\* _transcribe_video, Whisper path (pipeline.py 370-380): transcribe, then
\* save_transcript, then return
TranscribeVideo ==
    /\ fn.op = "chunks"
    /\ fn.pc = "args"
    /\ \E failed \in 0..Len(fn.chunks), e \in ApiErrors :
         LET o == ChunkedOutcome(fn.chunks, failed, e) IN
         fn' = [op |-> "whisper", pc |-> "done", chunks |-> fn.chunks,
                failed |-> failed, raised |-> o.raised,
                returned |-> o.raised = "none",
                result |-> o.transcript,
                saved |-> IF o.raised = "none" THEN o.transcript ELSE NoTranscript]
    /\ UNCHANGED <<pipeVars, rt, srv>>

SpecWhisper == InitChunks /\ [][TranscribeVideo]_vars

\* get_condense_prompt (prompt_templates.py 293-340)

\* Most words in a transcript handed to get_condense_prompt
MaxWords == 40

\* TARGET_RETENTION, levels 1 to 10
TARGET_RETENTION == <<75, 60, 50, 38, 30, 25, 20, 16, 13, 10>>

\* A target that ignores the transcript
FixedTarget(original_word_count, aggressiveness) == 20

\* prompt_templates.py 319-328.  For the retentions of the table the float
\* product original_word_count * (retention_percentage / 100) truncates to
\* the same integer as the exact quotient.
target_word_count(original_word_count, aggressiveness) ==
    LET retention_pct == TARGET_RETENTION[aggressiveness]
        target_reduction_percentage == 100 - retention_pct
        retention_percentage == 100 - target_reduction_percentage IN
    (original_word_count * retention_percentage) \div 100

InitPrompt ==
    /\ InitPipeline
    /\ InitRetryIdle
    /\ InitServer
    /\ fn \in { [op |-> "prompt", pc |-> "args", original_word_count |-> w,
                 aggressiveness |-> a, result |-> 0] :
                w \in 0..MaxWords, a \in 1..Len(TARGET_RETENTION) }

GetCondensePrompt ==
    /\ fn.op = "prompt"
    /\ fn.pc = "args"
    /\ fn' = [fn EXCEPT !.pc = "done",
                        !.result = target_word_count(fn.original_word_count,
                                                     fn.aggressiveness)]
    /\ UNCHANGED <<pipeVars, rt, srv>>

SpecPrompt == InitPrompt /\ [][GetCondensePrompt]_vars

\* Transcriber.save_transcript and load_transcript (transcriber.py 263-304)

Bs == "\\"

Quote == "\""

Nl == "\n"

\* A text is the sequence of its characters
Texts ==
    {<<>>, <<"a">>, <<"a", Quote, "b", Quote>>, <<Bs, "n">>, <<"e", Nl, Bs>>}

\* A Python number: an int, or a float with its whole and fractional digits
Numbers ==
    {[kind |-> "int", whole |-> 0, frac |-> 0],
     [kind |-> "float", whole |-> 10, frac |-> 0],
     [kind |-> "float", whole |-> 1, frac |-> 5]}

Segments == [start : Numbers, end : Numbers, text : {<<"a">>, <<Quote, Bs>>}]

\* Transcripts as _transcribe_single, _transcribe_chunked and
\* fetch_youtube_transcript build them
Transcripts ==
    [text : Texts, language : {<<"e", "n">>, <<"u", "n", "k">>},
     duration : Numbers,
     segments : {<<>>} \cup {<<g>> : g \in Segments}]

\* json.dump of a str with ensure_ascii=False: the characters between the
\* quotes, '"', '\' and the newline escaped
RECURSIVE encode_basestring(_)
encode_basestring(t) ==
    IF t = <<>> THEN <<>>
    ELSE (CASE Head(t) = Quote -> <<Bs, Quote>>
            [] Head(t) = Bs -> <<Bs, Bs>>
            [] Head(t) = Nl -> <<Bs, "n">>
            [] OTHER -> <<Head(t)>>) \o encode_basestring(Tail(t))

\* json.load of a string literal
RECURSIVE py_scanstring(_)
py_scanstring(lit) ==
    IF lit = <<>> THEN <<>>
    ELSE IF Head(lit) = Bs
    THEN <<IF lit[2] = "n" THEN Nl ELSE lit[2]>> \o py_scanstring(Tail(Tail(lit)))
    ELSE <<Head(lit)>> \o py_scanstring(Tail(lit))

\* int.__repr__ and float.__repr__: a float is written with a point
NumberLiteral(x) ==
    [whole |-> x.whole, point |-> x.kind = "float",
     frac |-> IF x.kind = "float" THEN x.frac ELSE 0]

\* A reader that takes every number for an int
ParseAsInt(lit) == [kind |-> "int", whole |-> lit.whole, frac |-> 0]

\* json.load of a number literal: a float if it has a point, else an int
ParseNumber(lit) ==
    [kind |-> IF lit.point THEN "float" ELSE "int", whole |-> lit.whole,
     frac |-> lit.frac]

\* json.dump(transcript, f, indent=2, ensure_ascii=False): the literal written
\* for each value of the document
json_dump(t) ==
    [text |-> encode_basestring(t.text),
     language |-> encode_basestring(t.language),
     duration |-> NumberLiteral(t.duration),
     segments |-> [i \in 1..Len(t.segments) |->
                      [start |-> NumberLiteral(t.segments[i].start),
                       end |-> NumberLiteral(t.segments[i].end),
                       text |-> encode_basestring(t.segments[i].text)]]]

json_load(d) ==
    [text |-> py_scanstring(d.text),
     language |-> py_scanstring(d.language),
     duration |-> ParseNumber(d.duration),
     segments |-> [i \in 1..Len(d.segments) |->
                      [start |-> ParseNumber(d.segments[i].start),
                       end |-> ParseNumber(d.segments[i].end),
                       text |-> py_scanstring(d.segments[i].text)]]]

\* Nothing written, nothing read yet
NoDocument ==
    [text |-> <<>>, language |-> <<>>,
     duration |-> [whole |-> 0, point |-> FALSE, frac |-> 0], segments |-> <<>>]

InitTranscript ==
    /\ InitPipeline
    /\ InitRetryIdle
    /\ InitServer
    /\ fn \in { [op |-> "json", pc |-> "args", transcript |-> t,
                 file |-> NoDocument, loaded |-> json_load(NoDocument)] :
                t \in Transcripts }

\* save_transcript(transcript, output_path)
SaveTranscript ==
    /\ fn.op = "json"
    /\ fn.pc = "args"
    /\ fn' = [fn EXCEPT !.pc = "saved", !.file = json_dump(fn.transcript)]
    /\ UNCHANGED <<pipeVars, rt, srv>>

\* load_transcript(output_path)
LoadTranscript ==
    /\ fn.op = "json"
    /\ fn.pc = "saved"
    /\ fn' = [fn EXCEPT !.pc = "loaded", !.loaded = json_load(fn.file)]
    /\ UNCHANGED <<pipeVars, rt, srv>>

NextTranscript ==
    \/ SaveTranscript
    \/ LoadTranscript

SpecTranscript == InitTranscript /\ [][NextTranscript]_vars

\* ContentCondenser.validate_condensed_script (condenser.py 358-382)

required_fields ==
    <<"condensed_script", "original_duration_minutes",
      "estimated_condensed_duration_minutes", "reduction_percentage">>

\* Values a script (Dict[str, Any]) may hold under condensed_script: strings,
\* and the JSON values null and list
ScriptValues ==
    {[type |-> "str", chars |-> <<"a", " ", "b">>],
     [type |-> "str", chars |-> <<>>],
     [type |-> "str", chars |-> <<" ">>],
     [type |-> "str", chars |-> <<Nl, " ">>],
     [type |-> "NoneType", chars |-> <<>>],
     [type |-> "list", chars |-> <<>>]}

Absent == [type |-> "absent", chars |-> <<>>]

Whitespace == {" ", Nl}

\* str.strip(): the characters without leading and trailing whitespace
RECURSIVE lstrip(_)
lstrip(t) == IF t # <<>> /\ Head(t) \in Whitespace THEN lstrip(Tail(t)) ELSE t

RECURSIVE rstrip(_)
rstrip(t) ==
    IF t # <<>> /\ t[Len(t)] \in Whitespace THEN rstrip(SubSeq(t, 1, Len(t) - 1)) ELSE t

strip(t) == rstrip(lstrip(t))

\* The loop of condenser.py 376-381 from field i on: what the call returns
\* ("True") or the exception it raises
RECURSIVE ValidateFrom(_, _)
ValidateFrom(script, i) ==
    IF i > Len(required_fields) THEN "True"
    ELSE IF required_fields[i] \notin script.fields THEN "ValueError"
    ELSE IF required_fields[i] = "condensed_script"
    THEN IF script.condensed_script.type # "str"
         THEN \* script[field].strip() on a value that has no strip
              "AttributeError"
         ELSE IF strip(script.condensed_script.chars) = <<>> THEN "ValueError"
         ELSE ValidateFrom(script, i + 1)
    ELSE ValidateFrom(script, i + 1)

validate_condensed_script(script) == ValidateFrom(script, 1)

Scripts ==
    { [fields |-> F,
       condensed_script |-> IF "condensed_script" \in F THEN v ELSE Absent] :
      F \in SUBSET Range(required_fields), v \in ScriptValues }

InitValidate ==
    /\ InitPipeline
    /\ InitRetryIdle
    /\ InitServer
    /\ fn \in { [op |-> "validate", pc |-> "args", script |-> c, result |-> "none"] :
                c \in Scripts }

ValidateScript ==
    /\ fn.op = "validate"
    /\ fn.pc = "args"
    /\ fn' = [fn EXCEPT !.pc = "done",
                        !.result = validate_condensed_script(fn.script)]
    /\ UNCHANGED <<pipeVars, rt, srv>>

SpecValidate == InitValidate /\ [][ValidateScript]_vars

\* detect_scene_changes (video_utils.py 125-189) and the inline branch of
\* _generate_video_slideshow that calls it (pipeline.py 674-723)

\* Most scenes one pass of the detector finds
MaxFound == 6

\* min_scenes: int = 5
MinScenes == 5

\* detect_scene_changes(source_video_path, threshold=27)
DetectThreshold == 27

\* ContentDetector(threshold=threshold - 4)
MoreSensitive == 4

\* What one call of scenedetect.detect does: it raises, or returns n scenes
PassOutcomes ==
    {[kind |-> "raises", n |-> 0]} \cup {[kind |-> "scenes", n |-> k] : k \in 0..MaxFound}

\* video_utils.py 161: if len(scene_list) < min_scenes
TooFew(n, min_scenes) == n < min_scenes

\* The thresholds of the passes made and the number of scenes returned.
\* imported is FALSE when scenedetect cannot be imported (ImportError, 182-184);
\* every other exception returns the empty list too (185-189).
detect_scene_changes(imported, first, second, threshold, min_scenes) ==
    IF ~imported
    THEN [passes |-> <<>>, scenes |-> 0]
    ELSE IF first.kind = "raises"
    THEN [passes |-> <<threshold>>, scenes |-> 0]
    ELSE IF TooFew(first.n, min_scenes)
    THEN [passes |-> <<threshold, threshold - MoreSensitive>>,
          scenes |-> IF second.kind = "raises" THEN 0 ELSE second.n]
    ELSE [passes |-> <<threshold>>, scenes |-> first.n]

InitDetect ==
    /\ InitPipeline
    /\ InitRetryIdle
    /\ InitServer
    /\ fn \in { [op |-> "detect", pc |-> "args", imported |-> im, first |-> f,
                 second |-> g, cd |-> SpeechSeconds(a),
                 passes |-> <<>>, scenes |-> 0, fallback |-> 0, count |-> 0,
                 raised |-> FALSE] :
                im \in BOOLEAN, f \in PassOutcomes, g \in PassOutcomes, a \in Aggr }

\* _generate_video_slideshow on an empty frames/ directory with the automatic
\* budget, every extract_frame call succeeding: detection, the frames chosen
\* and the ZeroDivisionError of an empty selection (pipeline.py 674-723, 760;
\* video_utils.py 213-214)
DetectInline ==
    /\ fn.op = "detect"
    /\ fn.pc = "args"
    /\ LET d == detect_scene_changes(fn.imported, fn.first, fn.second,
                                     DetectThreshold, MinScenes)
           p == SlideshowFrames(EmptyFolder, fn.cd, d.scenes, 0..(d.scenes - 1)) IN
       fn' = [fn EXCEPT !.pc = "done", !.passes = d.passes, !.scenes = d.scenes,
                        !.fallback = p.fallback, !.count = p.count,
                        !.raised = p.zerodiv \/ p.count = 0]
    /\ UNCHANGED <<pipeVars, rt, srv>>

SpecDetect == InitDetect /\ [][DetectInline]_vars

\* VoiceCloner.generate_speech_chunked (voice_cloner.py 137-230)

\* Most characters in a script handed to generate_speech_chunked
MaxText == 7

\* Largest chunk_size
MaxChunkSize == 4

\* A letter, a sentence end and a blank
ScriptTexts == UNION {[1..n -> {"a", ".", " "}] : n \in 0..MaxText}

\* The end of the whitespace run that starts at position i
RECURSIVE SkipWhitespace(_, _)
SkipWhitespace(t, i) ==
    IF i <= Len(t) /\ t[i] \in Whitespace THEN SkipWhitespace(t, i + 1) ELSE i

\* re.split(r'(?<=[.!?])\s+', text) from position i on, piece being the
\* characters read since the last separator
RECURSIVE re_split(_, _, _)
re_split(t, i, piece) ==
    IF i > Len(t) THEN <<piece>>
    ELSE IF t[i] \in Whitespace /\ i > 1 /\ t[i - 1] = "."
    THEN <<piece>> \o re_split(t, SkipWhitespace(t, i), <<>>)
    ELSE re_split(t, i + 1, Append(piece, t[i]))

\* voice_cloner.py 229-230: [s.strip() for s in sentences if s.strip()]
_split_into_sentences(text) ==
    LET parts == re_split(text, 1, <<>>) IN
    SelectSeq([k \in 1..Len(parts) |-> strip(parts[k])], LAMBDA s : s # <<>>)

\* The loop of voice_cloner.py 173-187 from sentence i on: the chunks it
\* appends, each the " ".join of its sentences
RECURSIVE GroupSentences(_, _, _, _, _)
GroupSentences(sentences, i, chunk_size, current_chunk, current_length) ==
    IF i > Len(sentences)
    THEN IF current_chunk # <<>> THEN <<Join(current_chunk)>> ELSE <<>>
    ELSE LET sentence_length == Len(sentences[i]) IN
         IF current_length + sentence_length > chunk_size /\ current_chunk # <<>>
         THEN <<Join(current_chunk)>>
              \o GroupSentences(sentences, i + 1, chunk_size,
                                <<sentences[i]>>, sentence_length)
         ELSE GroupSentences(sentences, i + 1, chunk_size,
                             Append(current_chunk, sentences[i]),
                             current_length + sentence_length)

\* The texts generate_speech is called with, in order (voice_cloner.py
\* 159-160 and 193-196)
generate_speech_chunked(text, chunk_size) ==
    IF Len(text) <= chunk_size THEN <<text>>
    ELSE GroupSentences(_split_into_sentences(text), 1, chunk_size, <<>>, 0)

InitSpeechChunks ==
    /\ InitPipeline
    /\ InitRetryIdle
    /\ InitServer
    /\ fn \in { [op |-> "speech_chunks", pc |-> "args", text |-> t,
                 chunk_size |-> c, calls |-> <<>>] :
                t \in ScriptTexts, c \in 1..MaxChunkSize }

GenerateSpeechChunked ==
    /\ fn.op = "speech_chunks"
    /\ fn.pc = "args"
    /\ fn' = [fn EXCEPT !.pc = "done",
                        !.calls = generate_speech_chunked(fn.text, fn.chunk_size)]
    /\ UNCHANGED <<pipeVars, rt, srv>>

SpecSpeechChunks == InitSpeechChunks /\ [][GenerateSpeechChunked]_vars

----------------------------------------------------------------------------
(* The chain store (utils/chain_store.py) and the chain resolution of        *)
(* ContentCondenser.condense (condenser.py 56-90, 162-225)                   *)

\* Aggressiveness levels that have a chain (1..10 in the code)
MaxLevel == 2

\* The largest max_retries of a condensation that resolves its chain
MaxChainRetries == 1

Models == {"gpt-5.2", "gpt-4o"}

\* Versions of the system prompts in prompt_templates.py
PromptVersions == {"prompts-1", "prompts-2"}

\* The response ids the Responses API hands out
ResponseIds == {"resp_a", "resp_b"}

\* str(level)
str(level) == ToString(level)

LevelKeys == {str(level) : level \in 1..MaxLevel}

\* The dictionaries of chain ids, keyed by str(level)
ChainDicts == UNION {[K -> ResponseIds] : K \in SUBSET LevelKeys}

\* Optional[Dict]: None, or a dictionary
NoChains == [none |-> TRUE, value |-> <<>>]

Some(d) == [none |-> FALSE, value |-> d]

\* chain_store.py 24-32: the first 16 hex digits of the SHA-256 of the prompts
compute_prompt_hash(prompts) ==
    CASE prompts = "prompts-1" -> "3f1c9a0b5d7e2468"
      [] prompts = "prompts-2" -> "b80e41d2c6a97f35"

\* json.dumps of a dictionary: its items, in insertion order
json_dumps(d) ==
    LET keys == SelectSeq([level \in 1..MaxLevel |-> str(level)],
                          LAMBDA k : k \in DOMAIN d)
    IN [i \in 1..Len(keys) |-> <<keys[i], d[keys[i]]>>]

\* json.loads of an object: the last item of a key is the key's value
json_loads(items) ==
    [k \in {items[i][1] : i \in 1..Len(items)} |->
        LET last == CHOOSE i \in 1..Len(items) :
                        /\ items[i][1] = k
                        /\ \A j \in 1..Len(items) : items[j][1] = k => j <= i
        IN items[last][2]]

\* condenser_chains.json: absent; or a text that is no JSON object; or an
\* object with some of the keys prompt_hash, model and chains
NoFile ==
    [exists |-> FALSE, json |-> FALSE, keys |-> {}, prompt_hash |-> "None",
     model |-> "None", chains |-> <<>>]

Unreadable == [NoFile EXCEPT !.exists = TRUE]

\* chain_store.py 61-66: what save_chains writes
Written(prompts, model, chains) ==
    [exists |-> TRUE, json |-> TRUE, keys |-> {"prompt_hash", "model", "chains"},
     prompt_hash |-> compute_prompt_hash(prompts), model |-> model,
     chains |-> json_dumps(chains)]

\* A comparison that accepts the chains of any model
AnyModel(stored, model) == TRUE

\* chain_store.py 47: data.get("model") != model
SameModel(stored, model) == stored = model

\* chain_store.py 35-56; data.get of an absent key is None, data["chains"]
\* of an absent key raises KeyError, and every exception gives None
load_chains(file, prompts, model) ==
    IF ~file.exists THEN NoChains
    ELSE IF ~file.json THEN NoChains
    ELSE IF file.prompt_hash # compute_prompt_hash(prompts) THEN NoChains
    ELSE IF ~SameModel(file.model, model) THEN NoChains
    ELSE IF "chains" \notin file.keys THEN NoChains
    ELSE Some(json_loads(file.chains))

\* dict.get(key)
dict_get(d, key) == IF key \in DOMAIN d THEN d[key] ELSE "None"

NoStoreCall ==
    [name |-> "none", model |-> "None", chains |-> <<>>, result |-> NoChains]

NoSave == [made |-> FALSE, model |-> "None", chains |-> <<>>]

NoCondense ==
    [pc |-> "done", provider |-> "none", model |-> "None", aggressiveness |-> 0,
     loaded |-> NoChains, inits |-> 0, init_failed |-> FALSE, chain_id |-> "None",
     attempt |-> 0, max_retries |-> 0, paths |-> <<>>]

\* The chains file is absent until save_chains writes it
InitChains ==
    /\ InitPipeline
    /\ InitRetryIdle
    /\ InitServer
    /\ fn = [op |-> "chains", file |-> NoFile, prompts |-> "prompts-1",
             call |-> NoStoreCall, saved |-> NoSave, after |-> NoSave,
             condense |-> NoCondense]

\* save_chains(model, chains)
SaveChains ==
    /\ fn.op = "chains"
    /\ fn.condense.pc # "loop"
    /\ \E model \in Models, chains \in ChainDicts :
         fn' = [fn EXCEPT !.file = Written(fn.prompts, model, chains),
                          !.call = [name |-> "save_chains", model |-> model,
                                    chains |-> chains, result |-> NoChains],
                          !.saved = [made |-> TRUE, model |-> model,
                                     chains |-> chains],
                          !.after = NoSave,
                          !.condense = NoCondense]
    /\ UNCHANGED <<pipeVars, rt, srv>>

\* load_chains(model); after holds the save_chains call it directly follows
LoadChains ==
    /\ fn.op = "chains"
    /\ fn.condense.pc # "loop"
    /\ \E model \in Models :
         fn' = [fn EXCEPT !.call = [name |-> "load_chains", model |-> model,
                                    chains |-> <<>>,
                                    result |-> load_chains(fn.file, fn.prompts,
                                                           model)],
                          !.after = fn.saved,
                          !.saved = NoSave,
                          !.condense = NoCondense]
    /\ UNCHANGED <<pipeVars, rt, srv>>

\* The prompts of prompt_templates.py are edited between two runs
EditPrompts ==
    /\ fn.op = "chains"
    /\ fn.condense.pc # "loop"
    /\ \E prompts \in PromptVersions \ {fn.prompts} :
         fn' = [fn EXCEPT !.prompts = prompts, !.call = NoStoreCall,
                          !.saved = NoSave, !.after = NoSave,
                          !.condense = NoCondense]
    /\ UNCHANGED <<pipeVars, rt, srv>>

\* A file as save_chains writes it
Complete(file) == file.keys = {"prompt_hash", "model", "chains"}

\* The file is removed, overwritten with something that is no JSON object, or
\* loses one of its keys
DamageFile ==
    /\ fn.op = "chains"
    /\ fn.condense.pc # "loop"
    /\ fn.file.exists
    /\ \E file \in {NoFile, Unreadable} \cup
                   (IF Complete(fn.file)
                    THEN {[fn.file EXCEPT !.keys = @ \ {"prompt_hash"},
                                          !.prompt_hash = "None"]}
                    ELSE {}) \cup
                   (IF Complete(fn.file)
                    THEN {[fn.file EXCEPT !.keys = @ \ {"model"},
                                          !.model = "None"]}
                    ELSE {}) \cup
                   (IF Complete(fn.file)
                    THEN {[fn.file EXCEPT !.keys = @ \ {"chains"},
                                          !.chains = <<>>]}
                    ELSE {}) :
         /\ file # fn.file
         /\ fn' = [fn EXCEPT !.file = file, !.call = NoStoreCall,
                             !.saved = NoSave, !.after = NoSave,
                             !.condense = NoCondense]
    /\ UNCHANGED <<pipeVars, rt, srv>>

\* A resolution that initialises the chains whatever load_chains returned
AlwaysInit(chains) == TRUE

\* condenser.py 166: if chains is None
NeedsInit(chains) == chains.none

\* condenser.py 183-225: the API call of one attempt
ApiCall(provider, chain_id) ==
    IF provider = "claude"
    THEN [api |-> "messages.create", system_prompt |-> TRUE,
          previous_response_id |-> "None"]
    ELSE IF chain_id # "None"
    THEN [api |-> "responses.create", system_prompt |-> FALSE,
          previous_response_id |-> chain_id]
    ELSE [api |-> "chat.completions.create", system_prompt |-> TRUE,
          previous_response_id |-> "None"]

\* condense() up to the retry loop (condenser.py 162-174): load_chains, and
\* when it returns None one call of init_chains (condenser.py 56-90), which
\* makes its API calls and then calls save_chains; an exception of either is
\* caught and leaves chains None. An API call that raises leaves the file as
\* it was, a write that fails leaves it truncated.
ResolveChains ==
    /\ fn.op = "chains"
    /\ fn.condense.pc # "loop"
    /\ \E provider \in {"claude", "openai"}, model \in Models,
          aggressiveness \in 1..MaxLevel, max_retries \in {0, MaxChainRetries} :
         LET loaded == IF provider = "openai"
                       THEN load_chains(fn.file, fn.prompts, model)
                       ELSE NoChains
             runs == provider = "openai" /\ NeedsInit(loaded)
         IN \E outcome \in IF runs THEN {"ok", "api_raises", "write_fails"}
                                   ELSE {"not called"} :
            \E ids \in IF outcome = "ok" THEN [LevelKeys -> ResponseIds]
                                         ELSE {<<>>} :
              LET chains == IF outcome = "ok" THEN Some(ids) ELSE loaded
                  file == CASE outcome = "ok" ->
                                   Written(fn.prompts, model, ids)
                            [] outcome = "write_fails" -> Unreadable
                            [] OTHER -> fn.file
              IN fn' = [fn EXCEPT
                       !.file = file,
                       !.call = NoStoreCall,
                       !.saved = NoSave,
                       !.after = NoSave,
                       !.condense =
                         [pc |-> "loop", provider |-> provider,
                          model |-> model,
                          aggressiveness |-> aggressiveness,
                          loaded |-> loaded,
                          inits |-> IF runs THEN 1 ELSE 0,
                          init_failed |-> runs /\ outcome # "ok",
                          chain_id |-> IF provider = "openai" /\ ~chains.none
                                       THEN dict_get(chains.value,
                                                     str(aggressiveness))
                                       ELSE "None",
                          attempt |-> 0, max_retries |-> max_retries,
                          paths |-> <<>>]]
    /\ UNCHANGED <<pipeVars, rt, srv>>

\* One iteration of the retry loop (condenser.py 180-252)
ChainAttempt ==
    /\ fn.op = "chains"
    /\ fn.condense.pc = "loop"
    /\ \E ok \in BOOLEAN, e \in ApiErrors :
         LET c == fn.condense
             called == [c EXCEPT !.paths = Append(@, ApiCall(c.provider,
                                                             c.chain_id))]
         IN fn' = [fn EXCEPT !.condense =
                      IF ok THEN [called EXCEPT !.pc = "returned"]
                      ELSE IF ~is_retryable(e) \/ c.attempt >= c.max_retries
                      THEN [called EXCEPT !.pc = "raised"]
                      ELSE [called EXCEPT !.attempt = @ + 1]]
    /\ UNCHANGED <<pipeVars, rt, srv>>

NextChains ==
    \/ SaveChains
    \/ LoadChains
    \/ EditPrompts
    \/ DamageFile
    \/ ResolveChains
    \/ ChainAttempt

SpecChains == InitChains /\ [][NextChains]_vars

Init == InitPipeline /\ InitRetryIdle /\ InitServer /\ fn = NoCall

SpecServer == Init /\ [][NextServer]_vars

\* The handler that took a job goes on to start its thread, and a started
\* thread runs to its end: pipeline.run returns or raises.
SpecServerFair ==
    /\ SpecServer
    /\ WF_vars(StartThread)
    /\ WF_vars(SetOutputFile)
    /\ WF_vars(RunEnds)
    /\ WF_vars(ReleaseJob)

Next ==
    \/ StartRun
    \/ Fetch
    \/ Transcribe
    \/ Condense
    \/ Voice
    \/ Speech
    \/ Render
    \/ Compose
    \/ Cleanup

Spec == Init /\ [][Next]_vars

NextCallback ==
    \/ Next
    \/ UpdateProgress

SpecCallback == Init /\ [][NextCallback]_vars

NextSlideshow ==
    \/ StartRunSlideshow
    \/ Fetch
    \/ Transcribe
    \/ Condense
    \/ Voice
    \/ Speech
    \/ WaitFrames
    \/ GenerateSlideshow
    \/ Compose
    \/ Cleanup
    \/ BgDetect
    \/ BgWrite

SpecSlideshow == Init /\ [][NextSlideshow]_vars

NextRetry ==
    \/ CondenseCall
    \/ ApiAttempt
    \/ ParseResponse

SpecRetry == Init /\ [][NextRetry]_vars

NextServices ==
    \/ CondenseCall
    \/ ApiAttempt
    \/ ParseResponse
    \/ DirectCall

SpecServices == Init /\ [][NextServices]_vars

----------------------------------------------------------------------------
(* Properties *)

PastFetch == pc \notin {"idle", "fetch"}

Rendered == pc \in {"compose", "cleanup", "done"}

\* the stage services that come after the stage a run failed in
LaterServices(stage) ==
    CASE stage = "FETCH" ->
           {"transcribe", "condense", "clone", "speech", "render", "compose"}
      [] stage = "TRANSCRIBE" -> {"condense", "clone", "speech", "render", "compose"}
      [] stage = "CONDENSE" -> {"clone", "speech", "render", "compose"}
      [] stage = "VOICE_CLONE" -> {"speech", "render", "compose"}
      [] stage = "VOICE_GENERATE" -> {"render", "compose"}
      [] stage = "VIDEO_GENERATE" -> {"compose"}
      [] OTHER -> {}

\* the file of the current video folder that snap records under kind k
OnDisk(k) ==
    IF k = "speech"
    THEN SpeechAt(Folder, SpeechKey(run.provider, ctx.used_voice_id))
    ELSE Folder[k]

\* C1: a run that repeats the previous, completed run with the same URL and
\* parameters and resume=true invokes no stage service and returns the
\* output path the previous run returned.
C1_ResumeIdempotence ==
    (pc = "done" /\ run.resume /\ prev.same /\ prev.end = "done")
        => (calls = {} /\ out = prev.out)

\* C2: a resume lookup never returns the folder of another job: the video a
\* run resumes from is the one its own URL downloads.
C2_JobIsolation ==
    \A stage \in resumed : ctx.folder = run.url

\* C3: a file left half written by an interrupted run is never accepted by
\* the resume lookup of the next run: when the lookup meets one, the stage is
\* not resumed and its service is invoked again.
C3_PartialNeverResumed ==
    /\ seen.tr = "partial" =>
           ("TRANSCRIBE" \notin resumed /\ "transcribe" \in calls)
    /\ seen.cond = "partial" =>
           ("CONDENSE" \notin resumed /\ "condense" \in calls)
    /\ seen.speech \in {"partial", "empty"} =>
           ("VOICE_GENERATE" \notin resumed /\ "speech" \in calls)

\* C4: an artifact that exists but is invalid (a JSON file that does not
\* parse, a transcript with an empty text, a zero-size speech file) is
\* reported as not found: the stage is not resumed from it and the run does
\* not fail in that stage's lookup.
C4_CorruptIsNotFound ==
    /\ seen.tr \in {"partial", "emptytext"} =>
           ("TRANSCRIBE" \notin resumed /\ ctx.error # "TRANSCRIBE")
    /\ seen.cond = "partial" =>
           ("CONDENSE" \notin resumed /\ ctx.error # "CONDENSE")
    /\ seen.speech = "empty" => "VOICE_GENERATE" \notin resumed

\* C5: a run whose URL yields no video id resumes from nothing, and once it
\* has produced its output every stage service up to the speech has been
\* invoked.
C5_NoIdNoResume ==
    (run.resume /\ PastFetch /\ _extract_video_id(run.url) = None)
        => /\ resumed = {}
           /\ pc = "done" => {"download", "transcribe", "condense", "speech"}
                                \subseteq calls

\* C6: on the same video, a run resumes a condensed script only if it was
\* produced at the run's aggressiveness, and a speech file only if it was
\* generated with the run's voice from a script of the run's aggressiveness.
C6_ConfigNeverCollides ==
    ctx.folder = run.url =>
        /\ "CONDENSE" \in resumed => ctx.cond.aggr = run.aggr
        /\ ("VOICE_GENERATE" \in resumed /\ seen.speech = "ok") =>
               /\ ctx.speech.voice = ctx.used_voice_id
               /\ ctx.speech.aggr = run.aggr

\* C7: after a stage has failed the run is over, no service of a later stage
\* has been invoked, and every file the earlier stages of the run wrote is
\* still on disk as written.
C7_FailureLeavesArtifacts ==
    ctx.error # "none" =>
        /\ pc = "failed"
        /\ calls \cap LaterServices(ctx.error) = {}
        /\ \A k \in DOMAIN snap : OnDisk(k) = snap[k]

C7_Witness ==
    /\ ctx.error = "VOICE_GENERATE"
    /\ {"video", "tr", "cond"} \subseteq DOMAIN snap
    /\ "speech" \in calls

\* C8: when the wait for the background frame extraction timed out, the
\* slideshow is built from frames the main thread extracted itself.
C8_TimeoutExtractsInline ==
    (ctx.timed_out /\ Rendered) => ctx.inline

\* C9: a call that returns after k transient failures made exactly k+1
\* attempts with k no larger than max_retries, slept once per failure for
\* initial_retry_delay * 2^attempt, and each sleep is longer than the one
\* before.
C9_RetryThenSuccess ==
    rt.pc \in {"parse", "returned"} =>
        /\ rt.attempts = rt.transients + 1
        /\ rt.transients <= rt.max_retries
        /\ Len(rt.slept) = rt.transients
        /\ \A i \in 1..Len(rt.slept) :
               rt.slept[i] = rt.initial_retry_delay * (2 ^ (i - 1))
        /\ \A i \in 1..(Len(rt.slept) - 1) : rt.slept[i + 1] > rt.slept[i]

C9_Witness ==
    /\ rt.pc = "returned"
    /\ rt.transients = 3
    /\ rt.max_retries = 5

\* the errors the claim calls transient: overload, rate limit, timeout and
\* connection failures
TransientErrors ==
    {{"529"}, {"Overloaded"}, {"rate_limit"}, {"Timeout"}, {"connection"}}

\* C10: the loop never makes more than max_retries+1 attempts and never
\* makes another attempt after a terminal error; a terminal error is raised
\* on the attempt it occurs in, with no sleep after it (after one attempt and
\* no sleep at all when it is the first error); an error that stays
\* transient is raised after exactly max_retries+1 attempts.
C10_TerminalAndExhaustion ==
    /\ rt.attempts <= rt.max_retries + 1
    /\ rt.pc = "attempt" => rt.last_error \in TransientErrors \cup {NoError}
    /\ (rt.pc = "raised" /\ rt.last_error \notin TransientErrors \cup {NoError}) =>
           /\ rt.attempts = rt.transients + 1
           /\ Len(rt.slept) = rt.transients
           /\ rt.transients = 0 => (rt.attempts = 1 /\ rt.slept = <<>>)
    /\ (rt.pc = "raised" /\ rt.response = "none"
            /\ rt.last_error \in TransientErrors) =>
           /\ rt.attempts = rt.max_retries + 1
           /\ rt.transients = rt.attempts
           /\ Len(rt.slept) = rt.max_retries

C10_Witness ==
    /\ rt.pc = "raised"
    /\ rt.last_error = {"401"}
    /\ rt.attempts = 1
    /\ rt.max_retries = 5

\* condenser.py 98: max_retries: int = 5
DefaultMaxRetries == 5

\* the attempt budget of the retry policy for the call in progress
PolicyBudget ==
    IF rt.service = "condense" THEN rt.max_retries + 1 ELSE DefaultMaxRetries + 1

\* C11: whichever service it is, a call that ends by raising a transient
\* error has used up the attempt budget of the retry policy, with a sleep
\* between each two attempts.
C11_UniformRetry ==
    (rt.pc = "raised" /\ rt.response = "none" /\ rt.last_error \in TransientErrors) =>
        /\ rt.attempts = PolicyBudget
        /\ Len(rt.slept) = rt.attempts - 1

\* C12: a call that fails with a vendor error carrying a message raises an
\* ApiError with exactly that message; a call that fails with any other
\* API error raises something that is not an ApiError.
C12_VendorMessageSurfaces ==
    (rt.pc = "raised" /\ rt.response = "none") =>
        IF "body" \in rt.last_error
        THEN rt.raised = "ApiError" /\ rt.message = "vendor message"
        ELSE rt.raised # "ApiError"

\* C13: when a run has failed in a stage, the progress callback has received
\* an event that marks that stage as failed.
C13_FailedEventDelivered ==
    ctx.error # "none" =>
        \E i \in 1..Len(events) : events[i] = <<ctx.error, "failed">>

\* C14: an audio_only run never reaches the compose or the cleanup stage,
\* and once it is done it has invoked neither the renderer nor the composer
\* and its output, named .mp3, is a copy of the speech file of the run.
C14_AudioOnlyShortCircuits ==
    run.mode = "audio_only" =>
        /\ pc \notin {"compose", "cleanup"}
        /\ pc = "done" =>
               /\ calls \cap {"render", "compose"} = {}
               /\ ctx.speech.st # "absent"
               /\ ctx.output_audio = ctx.speech
               /\ out = OutputPath(ctx, run.provider, "mp3")

C14_Witness ==
    /\ run.mode = "audio_only"
    /\ pc = "done"
    /\ "speech" \in calls
    /\ ctx.output_audio.st = "ok"

\* C15: a run that has invoked delete_voice cloned a voice itself, did not
\* use Edge TTS or a premade voice, and deleted the voice id that its own
\* clone_voice call returned.
C15_TeardownOnlyOwnClone ==
    "delete_voice" \in calls =>
        /\ "clone" \in calls
        /\ run.provider # "edge" /\ ~run.skip
        /\ ctx.deleted = ClonedVoice(nclones)
        /\ ctx.deleted = ctx.used_voice_id

C15_Witness ==
    /\ pc = "done"
    /\ "delete_voice" \in calls
    /\ ctx.deleted = ClonedVoice(2)
    /\ ClonedVoice(1) \in voices

RECURSIVE SumDurations(_)
SumDurations(t) == IF t = <<>> THEN 0 ELSE Head(t).duration + SumDurations(Tail(t))

\* C16: for N >= 1 frames whose scenes have strictly increasing start_time,
\* the synchronizer's show_at values are non-decreasing, every duration is
\* non-negative and the durations sum to exactly the condensed audio duration;
\* a single scene yields one frame lasting the whole condensed duration.
C16_TimingsCoverAudio ==
    (fn.op = "sync" /\ fn.pc = "done" /\ fn.scenes # <<>>) =>
        LET t == fn.result.timings
            total == fn.cd * fn.result.den IN
        /\ \A i \in 1..(Len(t) - 1) : t[i].show_at <= t[i + 1].show_at
        /\ \A i \in 1..Len(t) : t[i].duration >= 0
        /\ SumDurations(t) = total
        /\ Len(fn.scenes) = 1 => (Len(t) = 1 /\ t[1].duration = total)

\* The part of C16 that does not depend on where the first frame starts
C16_Monotone ==
    (fn.op = "sync" /\ fn.pc = "done" /\ fn.scenes # <<>>) =>
        LET t == fn.result.timings IN
        /\ \A i \in 1..(Len(t) - 1) : t[i].show_at <= t[i + 1].show_at
        /\ \A i \in 1..Len(t) : t[i].duration >= 0
        /\ SumDurations(t) = fn.cd * fn.result.den - t[1].show_at

\* C17: every frame mapped with scene timing data has
\* show_at = scene.start_time / sourceDuration * condensedDuration, so that
\* show_at / condensedDuration = start_time / sourceDuration and show_at lies
\* in [0, condensedDuration), whatever the ratio of the two durations.
C17_ProportionalMapping ==
    (fn.op = "sync" /\ fn.pc = "done" /\ fn.result.proportional) =>
        LET t == fn.result.timings IN
        /\ Len(t) = Len(fn.frame_paths)
        /\ \A i \in 1..Len(t) :
             LET start_time == SceneOf(fn.scenes, t[i].scene_id).start_time IN
             /\ t[i].path = SceneFrame(t[i].scene_id)
             /\ t[i].show_at * fn.sd = start_time * fn.cd * fn.result.den
             /\ 0 <= t[i].show_at
             /\ t[i].show_at < fn.cd * fn.result.den

\* Two mapped frames, the second one later than the first, with a condensed
\* track longer than the source
C17_Witness ==
    /\ fn.op = "sync" /\ fn.pc = "done" /\ fn.result.proportional
    /\ Len(fn.result.timings) = 2
    /\ fn.result.timings[2].show_at > fn.result.timings[1].show_at
    /\ fn.result.timings[1].show_at > 0
    /\ fn.cd > fn.sd

\* C18: when the number of scenes n exceeds the frame budget m >= 1, the
\* selected indices are strictly increasing, start at 0, consecutive ones
\* differ by floor(n/m) or ceil(n/m), and the last one is at least
\* n - ceil(n/m): a stride over the whole list, not a truncation.
C18_StrideCoversList ==
    (fn.op = "sample" /\ fn.pc = "done" /\ fn.n > fn.max_frames) =>
        LET sel == fn.result
            lo == fn.n \div fn.max_frames
            hi == (fn.n + fn.max_frames - 1) \div fn.max_frames IN
        /\ Len(sel) = fn.max_frames
        /\ sel[1] = 0
        /\ \A i \in 1..(Len(sel) - 1) :
             /\ sel[i] < sel[i + 1]
             /\ sel[i + 1] - sel[i] \in {lo, hi}
        /\ sel[Len(sel)] >= fn.n - hi
        /\ sel[Len(sel)] < fn.n

\* 12 scenes sampled down to 8 frames
C18_Witness ==
    /\ fn.op = "sample" /\ fn.pc = "done"
    /\ fn.n = 12 /\ fn.max_frames = 8
    /\ fn.result = <<0, 1, 3, 4, 6, 7, 9, 10>>

\* C19: a slideshow run with frame budget m on a video with n detected
\* scenes, whatever runs came before it, produces exactly min(n, m) frame
\* timings whose durations sum to the condensed audio duration.
C19_BudgetedFrameCount ==
    (/\ run.mode = "slideshow" /\ run.frames_given
     /\ pc \in {"compose", "cleanup", "done"}
     /\ Folder.scenes = NScenes) =>
        /\ Len(ctx.timings.timings) = Min(NScenes, run.max_frames)
        /\ SumDurations(ctx.timings.timings) = ctx.speech.dur * ctx.timings.den

\* A budgeted run after an unbudgeted one shows the earlier run's frames
C19_EarlierBudgetReused ==
    /\ run.mode = "slideshow" /\ run.frames_given /\ nruns = 2
    /\ pc = "compose" /\ ~ctx.inline /\ ~ctx.timed_out
    /\ Folder.scenes = NScenes
    /\ Len(ctx.timings.timings) = NScenes

\* A fresh budgeted run whose inline extraction got every frame
C19_FreshRun ==
    /\ run.mode = "slideshow" /\ run.frames_given /\ nruns = 1
    /\ pc = "compose" /\ ctx.inline
    /\ Len(ctx.timings.timings) = Min(NScenes, run.max_frames)
    /\ SumDurations(ctx.timings.timings) = ctx.speech.dur * ctx.timings.den

\* Seconds of audio and number of segments in the chunks before chunk i
RECURSIVE DurationBefore(_, _)
DurationBefore(c, i) == IF i <= 1 THEN 0 ELSE DurationBefore(c, i - 1) + c[i - 1].duration

RECURSIVE SegmentsBefore(_, _)
SegmentsBefore(c, i) ==
    IF i <= 1 THEN 0 ELSE SegmentsBefore(c, i - 1) + Len(c[i - 1].segments)

\* The words of chunks 1..i, a separator between two chunks
RECURSIVE TextUpTo(_, _)
TextUpTo(c, i) ==
    IF i = 0 THEN <<>>
    ELSE IF i = 1 THEN c[1].text
    ELSE TextUpTo(c, i - 1) \o <<" ">> \o c[i].text

\* C20: for an oversized input split into chunks c1..cn, _transcribe_chunked
\* returns the chunk texts joined in their order, and every segment of chunk i
\* appears in the result, in order, with start and end shifted by the sum of
\* the durations of chunks 1..i-1, a shift that never decreases with i.
C20_ChunkReassembly ==
    (fn.op = "chunks" /\ fn.pc = "done") =>
        LET c == fn.chunks
            r == fn.result IN
        /\ r.text = TextUpTo(c, Len(c))
        /\ Len(r.segments) = SegmentsBefore(c, Len(c) + 1)
        /\ \A i \in 1..Len(c) :
             /\ DurationBefore(c, i) <= DurationBefore(c, i + 1)
             /\ \A k \in 1..Len(c[i].segments) :
                  LET seg == r.segments[SegmentsBefore(c, i) + k] IN
                  /\ seg.start = c[i].segments[k].start + DurationBefore(c, i)
                  /\ seg.end = c[i].segments[k].end + DurationBefore(c, i)
                  /\ seg.text = c[i].segments[k].text

\* Three chunks, the last of which has a segment that is moved by the
\* duration of the two chunks before it
C20_Witness ==
    /\ fn.op = "chunks" /\ fn.pc = "done"
    /\ Len(fn.chunks) = 3
    /\ fn.chunks[1].duration # fn.chunks[2].duration
    /\ fn.chunks[2].segments = <<>>
    /\ Len(fn.chunks[3].segments) = 2
    /\ fn.result.segments[Len(fn.result.segments)].start = 1 + 3
    /\ fn.result.text = <<"a", " ", "b", "c", " ", "a">>

\* C21: when the transcription of any single chunk fails, the whole
\* transcribe call fails: nothing built from the chunks that succeeded is
\* returned or saved as transcript.json.
C21_ChunkFailureAborts ==
    (fn.op = "whisper" /\ fn.failed # 0) =>
        /\ fn.raised # "none"
        /\ ~fn.returned
        /\ fn.result = NoTranscript
        /\ fn.saved = NoTranscript

\* The last of three chunks fails after two chunks with text were transcribed
C21_Witness ==
    /\ fn.op = "whisper" /\ fn.failed = 3
    /\ Len(fn.chunks) = 3
    /\ fn.chunks[1].segments # <<>>
    /\ fn.raised # "none"

\* C22: the video_id a resumed run reconstructs from the working folder's
\* name equals the id under which the video was downloaded, for every valid
\* YouTube id, so that the same URL maps to the same folder and the same id
\* on every run.
C22_ResumedIdIsDownloadId ==
    ("FETCH" \in resumed /\ UrlInfo(run.url).yt) =>
        /\ ctx.folder = run.url
        /\ ctx.video_id = UrlInfo(run.url).id

\* The folder is the same on every run of a YouTube URL
C22_SameFolder ==
    ("FETCH" \in resumed /\ UrlInfo(run.url).yt) => ctx.folder = run.url

\* C23: for every stage that is invoked and succeeds, its progress event is
\* delivered only after the stage's artifact has been persisted, and the
\* events of different stages are delivered in the order the stages complete.
C23_EventAfterPersist ==
    \A j \in 1..Len(events) :
        events[j][2] = "persisted" =>
            /\ \E i \in (j + 1)..Len(events) :
                   events[i][1] = events[j][1] /\ events[i][2] # "persisted"
            /\ \A i \in 1..(j - 1) :
                   events[i][1] = events[j][1] => events[i][2] = "persisted"

\* C24: the orchestrator never blocks on the progress callback: a callback
\* that does not return, or that raises, does not stop the run from
\* advancing to the next stage and completing.
C24_CallbackNeverStopsRun ==
    ctx.callback # "returns" => pc \notin {"blocked", "failed"}

\* C25: under any interleaving of POST /api/condense requests and job
\* completions at most one pipeline run is in progress, and a request that
\* arrives while a job is in progress is answered 429 without creating a job
\* or starting a run.
C25_JobsSerialized ==
    /\ Cardinality({r \in Requests : srv.thread[r] = "running"}) <= 1
    /\ \A r \in Requests :
         /\ srv.thread[r] = "running" => srv.currently_processing = r
         /\ srv.handler[r] = "429" => (r \notin srv.jobs /\ srv.thread[r] = "none")
         /\ srv.handler[r] = "accepted" =>
                \A q \in Requests : srv.thread[q] \notin {"running", "completed", "error"}

\* A request is turned away while a run is in progress, after an earlier job
\* has ended
C25_Witness ==
    \E a, b, c \in Requests :
        /\ srv.thread[a] = "ended_completed"
        /\ srv.thread[b] = "running"
        /\ srv.handler[c] = "429"
        /\ srv.jobs = {a, b}

C27_SaveLoadRoundTrip ==
    (fn.op = "json" /\ fn.pc = "loaded") =>
        /\ fn.loaded.text = fn.transcript.text
        /\ fn.loaded.language = fn.transcript.language
        /\ fn.loaded.duration = fn.transcript.duration
        /\ fn.loaded.segments = fn.transcript.segments

\* A transcript whose text holds quotes, with a float duration and a segment,
\* has been written with escapes and read back
C27_Witness ==
    /\ fn.op = "json" /\ fn.pc = "loaded"
    /\ fn.transcript.text = <<"a", Quote, "b", Quote>>
    /\ Len(fn.file.text) = 6
    /\ fn.transcript.duration.kind = "float"
    /\ Len(fn.transcript.segments) = 1
    /\ fn.loaded.text = <<"a", Quote, "b", Quote>>

\* C28: validate_condensed_script returns True exactly when the script has
\* all four required fields and a non-blank condensed_script; in every other
\* case it raises ValueError, and it never returns False.
C28_ValidateTrueOrValueError ==
    (fn.op = "validate" /\ fn.pc = "done") =>
        LET c == fn.script
            complete == c.fields = {"condensed_script", "original_duration_minutes",
                                    "estimated_condensed_duration_minutes",
                                    "reduction_percentage"}
            nonblank == /\ c.condensed_script.type = "str"
                        /\ \E i \in 1..Len(c.condensed_script.chars) :
                               c.condensed_script.chars[i] \notin {" ", Nl} IN
        /\ fn.result # "False"
        /\ fn.result = IF complete /\ nonblank THEN "True" ELSE "ValueError"

\* The same statement for scripts whose condensed_script, when present, is a
\* string
C28_ForStrings ==
    (fn.op = "validate" /\ fn.pc = "done"
        /\ fn.script.condensed_script.type \in {"str", "absent"}) =>
        LET c == fn.script
            complete == Cardinality(c.fields) = 4
            nonblank == /\ c.condensed_script.type = "str"
                        /\ \E i \in 1..Len(c.condensed_script.chars) :
                               c.condensed_script.chars[i] \notin {" ", Nl} IN
        fn.result = IF complete /\ nonblank THEN "True" ELSE "ValueError"

\* The current run has called update_progress(stage, ...) for a stage whose
\* service it invokes next
Invoked(stage) == \E i \in 1..Len(events) : events[i] = <<stage, "start">>

\* C29: a stage service is invoked only once every input it reads is
\* present: when voice cloning is invoked the extracted audio it samples from
\* exists, and when speech generation is invoked a condensed script and a
\* voice id are present, on every path through the run.
C29_InputsPresent ==
    /\ Invoked("VOICE_CLONE") => Folder.audio
    /\ Invoked("VOICE_GENERATE") => (ctx.cond.st # "absent" /\ ctx.used_voice_id # None)

\* The speech half of C29
C29_SpeechInputs ==
    Invoked("VOICE_GENERATE") => (ctx.cond.st # "absent" /\ ctx.used_voice_id # None)

\* The background worker of the current run has not finished
WorkerAlive == bg.pc \notin {"off", "done"}

\* C30: the background frame-extraction worker has terminated before the
\* main thread reads or writes the frames directory in
\* _generate_video_slideshow and before run() returns or raises: the two
\* threads never use the frames directory at the same time.
C30_WorkerEndsFirst ==
    pc \in {"slideshow", "compose", "cleanup", "done", "failed"} => ~WorkerAlive

\* The main thread is about to build the slideshow from frames/ while the
\* worker is still writing there
C30_SharedFramesDir ==
    /\ pc = "slideshow" /\ ctx.timed_out /\ bg.pc = "frames"
    /\ Folder.frames # {}

\* run() has raised in an early stage and the worker is still running
C30_RaisedBeforeWorkerEnded ==
    /\ pc = "failed" /\ ctx.error = "TRANSCRIBE" /\ WorkerAlive

\* C31: once run() has returned or raised, a run that cloned a voice has
\* invoked delete_voice for that voice, in every video generation mode
\* (audio_only included) and also when a stage after cloning failed.
C31_ClonedVoiceDeleted ==
    (pc \in {"done", "failed"} /\ ctx.cleanup_voice) =>
        /\ "delete_voice" \in calls
        /\ ctx.deleted = ctx.used_voice_id

\* The same statement for the runs that reach the cleanup stage
C31_DeletedAfterCompose ==
    (pc = "done" /\ ctx.cleanup_voice /\ run.mode # "audio_only") =>
        /\ "delete_voice" \in calls
        /\ ctx.deleted = ctx.used_voice_id

\* C32: when the number of detected scenes n exceeds the frame budget m, the
\* selected scenes are exactly every ceil(n/m)-th scene of the detected list:
\* the scenes at indices 0, s, 2s, ... with s = ceil(n/m).
C32_EveryCeilthScene ==
    (fn.op = "sample" /\ fn.pc = "done" /\ fn.n > fn.max_frames) =>
        LET s == (fn.n + fn.max_frames - 1) \div fn.max_frames
            k == (fn.n + s - 1) \div s IN
        fn.result = [i \in 1..k |-> (i - 1) * s]

\* C32 as amended: when n exceeds m, exactly m scenes are selected, the i-th
\* of them (i = 0..m-1) at the index proportional to i, that is at i*n/m or
\* within one scene below it; they are the scenes at 0, s, 2s, ... with
\* s = ceil(n/m) exactly when m divides n.
C32_ProportionalStride ==
    (fn.op = "sample" /\ fn.pc = "done" /\ fn.n > fn.max_frames) =>
        LET sel == fn.result
            n == fn.n
            m == fn.max_frames
            s == (n + m - 1) \div m IN
        /\ Len(sel) = m
        /\ \A i \in 1..Len(sel) :
             /\ m * sel[i] <= (i - 1) * n
             /\ m * sel[i] >= (i - 1) * n - m
        /\ (sel = [i \in 1..m |-> (i - 1) * s]) <=> (n % m = 0)

\* 12 scenes sampled down to 5 frames
C32_Witness ==
    /\ fn.op = "sample" /\ fn.pc = "done"
    /\ fn.n = 12 /\ fn.max_frames = 5
    /\ fn.result = <<0, 2, 4, 7, 9>>

\* C33: _generate_video_slideshow, once the condensed audio's duration is
\* known, never raises before it calls the renderer (no division by zero in
\* the frame selection or the timing computation) and ends with at least one
\* frame timing, for every positive condensed duration, every frame budget
\* and every scene-detection outcome.
C33_SlideshowHasTimings ==
    (/\ run.mode = "slideshow"
     /\ ctx.speech.st = "ok"
     /\ (ctx.error = "VIDEO_GENERATE" \/ pc \in {"compose", "cleanup", "done"})) =>
        /\ "render" \in calls
        /\ pc \in {"compose", "cleanup", "done"} => Len(ctx.timings.timings) >= 1

\* The part of C33 about the runs that get past the slideshow stage
C33_RenderedHasTimings ==
    (run.mode = "slideshow" /\ pc \in {"compose", "cleanup", "done"}) =>
        Len(ctx.timings.timings) >= 1

\* A 3-second narration with the automatic budget and scenes detected inline:
\* max_frames = min(15, int(3 / 4)) = 0 and step = len(scenes) / 0
C33_ZeroBudget ==
    /\ run.mode = "slideshow" /\ ~run.frames_given
    /\ ctx.error = "VIDEO_GENERATE" /\ ctx.inline
    /\ ctx.speech.st = "ok" /\ ctx.speech.dur = 3
    /\ Folder.scenes = NScenes
    /\ "render" \notin calls

\* C34: when no scene timing data is available for the frames, every frame,
\* the last included, gets the same duration condensed_duration / frameCount
\* and the i-th frame (from 0) is shown at i * condensed_duration / frameCount.
\* (Times are numerators over den, which is frameCount here.)
C34_EqualDurationSpacing ==
    (fn.op = "sync" /\ fn.pc = "done" /\ fn.scenes = <<>>) =>
        LET t == fn.result.timings IN
        /\ ~fn.result.proportional
        /\ fn.result.den = Len(fn.frame_paths)
        /\ Len(t) = Len(fn.frame_paths)
        /\ \A i \in 1..Len(t) :
             /\ t[i].path = fn.frame_paths[i]
             /\ t[i].show_at = (i - 1) * fn.cd
             /\ t[i].duration = fn.cd

\* Two fallback frames under a 9-second narration: 4.5 seconds each
C34_Witness ==
    /\ fn.op = "sync" /\ fn.pc = "done" /\ fn.scenes = <<>>
    /\ Len(fn.frame_paths) = 2 /\ fn.cd = 9
    /\ fn.result.den = 2
    /\ fn.result.timings[2].show_at = 9
    /\ fn.result.timings[2].duration = 9

\* C35: scene detection runs the detector at most twice per call, the second
\* pass, with a lower threshold, exactly when the first pass finds fewer than
\* the minimum scene count; and when detection raises or yields no scenes the
\* slideshow goes on with evenly spaced frames instead of failing.
C35_RetryOnceThenFallBack ==
    (fn.op = "detect" /\ fn.pc = "done") =>
        /\ Len(fn.passes) <= 2
        /\ Len(fn.passes) = 2 <=>
               (fn.imported /\ fn.first.kind = "scenes" /\ fn.first.n < MinScenes)
        /\ Len(fn.passes) = 2 => fn.passes[2] < fn.passes[1]
        /\ fn.scenes = 0 => (~fn.raised /\ fn.fallback >= 1 /\ fn.count = fn.fallback)

\* The detector's part of C35
C35_AtMostTwoPasses ==
    (fn.op = "detect" /\ fn.pc = "done") =>
        /\ Len(fn.passes) <= 2
        /\ Len(fn.passes) = 2 <=>
               (fn.imported /\ fn.first.kind = "scenes" /\ fn.first.n < MinScenes)
        /\ Len(fn.passes) = 2 => fn.passes[2] < fn.passes[1]

\* The fallback's part of C35 for narrations of five seconds and more
C35_FallbackWithBudget ==
    (fn.op = "detect" /\ fn.pc = "done" /\ fn.scenes = 0 /\ fn.cd >= 5) =>
        (~fn.raised /\ fn.fallback >= 1 /\ fn.count = fn.fallback)

\* Both passes raise nothing and find nothing under a 3-second narration:
\* no fallback frame, and the equal-duration division fails
C35_EmptyFallback ==
    /\ fn.op = "detect" /\ fn.pc = "done"
    /\ Len(fn.passes) = 2 /\ fn.scenes = 0
    /\ fn.cd = 3 /\ fn.fallback = 0 /\ fn.raised

\* C36: every job accepted by POST /api/condense eventually has status
\* completed or error and no longer holds the processing slot, whether its
\* pipeline run returned or raised; and a request is turned away only while
\* a job holds the slot and its thread has not ended, so a request that
\* comes after a job's end is accepted.
C36_AcceptedJobsFinish ==
    /\ \A r \in Requests :
         (r \in srv.jobs) ~>
             (/\ srv.status[r] \in {"completed", "error"}
              /\ srv.currently_processing # r)
    /\ [][\A r \in Requests :
            (srv.handler[r] = "none" /\ srv'.handler[r] = "429") =>
                /\ srv.currently_processing # NoJob
                /\ srv.thread[srv.currently_processing]
                       \notin {"ended_completed", "ended_error"}]_vars

\* A job's run raised, its slot was given back and a later request was taken
C36_Witness ==
    \E a, b \in Requests :
        /\ srv.status[a] = "error"
        /\ srv.thread[a] = "ended_error"
        /\ srv.handler[b] = "accepted"
        /\ srv.currently_processing = b

\* C37: a job's status only moves queued -> processing -> completed or
\* error and never changes once it is completed or error; output_file is set
\* only for a job that reaches completed (it is never set on a job that
\* ends in error, and a job whose thread is past its try block has it set
\* exactly when its status is completed); and /api/download sends a file
\* only for a job whose status is completed.
C37_StatusLifecycle ==
    /\ [][\A r \in Requests :
            srv'.status[r] # srv.status[r] =>
                <<srv.status[r], srv'.status[r]>> \in
                    {<<"none", "queued">>, <<"queued", "processing">>,
                     <<"processing", "completed">>, <<"processing", "error">>}]_vars
    /\ [](\A r \in Requests :
            /\ srv.output_file[r] => srv.status[r] \in {"processing", "completed"}
            /\ srv.thread[r] # "running" =>
                   (srv.output_file[r] <=> srv.status[r] = "completed")
            /\ srv.status[r] # "none" <=> r \in srv.jobs)
    /\ [](srv.download.response = "send_file" =>
            /\ srv.status[srv.download.job] = "completed"
            /\ srv.output_file[srv.download.job])

\* The file of a completed job is sent while an earlier job ended in error
C37_Witness ==
    \E a, b \in Requests :
        /\ srv.status[a] = "error" /\ ~srv.output_file[a]
        /\ srv.status[b] = "completed" /\ srv.output_file[b]
        /\ srv.download = [job |-> b, response |-> "send_file"]

\* C38: generate_speech_chunked never calls generate_speech with a text
\* longer than chunk_size characters, for any text and any chunk_size.
C38_ChunksWithinSize ==
    (fn.op = "speech_chunks" /\ fn.pc = "done") =>
        \A i \in 1..Len(fn.calls) : Len(fn.calls[i]) <= fn.chunk_size

\* A text that fits is passed on whole, and a chunk of a longer text is never
\* empty
C38_ShortTextWhole ==
    (fn.op = "speech_chunks" /\ fn.pc = "done") =>
        /\ Len(fn.text) <= fn.chunk_size => fn.calls = <<fn.text>>
        /\ Len(fn.text) > fn.chunk_size =>
               \A i \in 1..Len(fn.calls) : fn.calls[i] # <<>>

\* One sentence longer than chunk_size is passed on whole
C38_LongSentence ==
    /\ fn.op = "speech_chunks" /\ fn.pc = "done"
    /\ fn.chunk_size = 2
    /\ fn.text = <<"a", "a", ".">>
    /\ fn.calls = <<fn.text>>

\* Two sentences of two characters make a chunk of five under chunk_size 4:
\* the blanks that join the sentences are not counted
C38_JoinedOverrun ==
    /\ fn.op = "speech_chunks" /\ fn.pc = "done"
    /\ fn.chunk_size = 4
    /\ fn.text = <<"a", ".", " ", "a", ".">>
    /\ fn.calls = <<fn.text>>

\* C39: load_chains(model) returns the stored chain ids only when the chains
\* file exists, its stored prompt hash is the hash of the current prompts and
\* its stored model is the requested model; in every other case (file missing
\* or unreadable, prompts changed, other model) it returns None; and
\* load_chains(m) directly after save_chains(m, c) returns c.
C39_LoadChains ==
    (fn.op = "chains" /\ fn.call.name = "load_chains") =>
        LET file == fn.file
            result == fn.call.result
            valid == /\ file.exists
                     /\ file.json
                     /\ file.prompt_hash = compute_prompt_hash(fn.prompts)
                     /\ file.model = fn.call.model
            items == file.chains
        IN /\ ~valid => result.none
           /\ (valid /\ "chains" \in file.keys) => ~result.none
           /\ ~result.none =>
                  /\ DOMAIN result.value = {items[i][1] : i \in 1..Len(items)}
                  /\ \A i \in 1..Len(items) :
                         result.value[items[i][1]] = items[i][2]
           /\ (fn.after.made /\ fn.after.model = fn.call.model) =>
                  /\ ~result.none
                  /\ result.value = fn.after.chains

\* A load that directly follows a save of the same model and returns the two
\* chain ids that were saved
C39_Witness ==
    /\ fn.op = "chains"
    /\ fn.call.name = "load_chains"
    /\ fn.after.made
    /\ fn.after.model = fn.call.model
    /\ DOMAIN fn.after.chains = {"1", "2"}
    /\ fn.call.result = [none |-> FALSE, value |-> fn.after.chains]

\* C40: when load_chains returns None (chain ids missing or stale), condense
\* with the OpenAI provider calls init_chains once, before the retry loop and
\* never inside it; when that call fails the failure is not raised and every
\* attempt of the loop goes through chat completions with the system prompt.
C40_ReinitOnceThenChat ==
    /\ [](fn.op = "chains" /\ fn.condense.provider = "openai" =>
            LET c == fn.condense
            IN /\ c.inits = IF c.loaded.none THEN 1 ELSE 0
               /\ c.init_failed =>
                      /\ c.pc = "loop" \/ Len(c.paths) >= 1
                      /\ \A i \in 1..Len(c.paths) :
                             /\ c.paths[i].api = "chat.completions.create"
                             /\ c.paths[i].system_prompt)
    /\ [][(fn.op = "chains" /\ fn.condense.pc = "loop") =>
              /\ fn'.condense.inits = fn.condense.inits
              /\ fn'.file = fn.file]_vars

\* A condensation whose init_chains failed and that returned after a retry
C40_Witness ==
    /\ fn.op = "chains"
    /\ fn.condense.provider = "openai"
    /\ fn.condense.loaded.none
    /\ fn.condense.init_failed
    /\ fn.condense.pc = "returned"
    /\ Len(fn.condense.paths) = 2

============================================================================
